---- MODULE Spec2Model ----
(***************************************************************************)
(* Model of the form-field resolution engine of the grant auto-application *)
(* system (src/form_filler/__init__.py): label extraction from a page      *)
(* element, the three-stage lookup of _determine_field_data, and the       *)
(* filling of input, textarea and select elements.                         *)
(*                                                                         *)
(* Python str values are TLA+ strings; Len, SubSeq and \o work on them     *)
(* character by character, so substring tests, lower(), strip() and        *)
(* title() are computed on the characters as Python computes them.         *)
(***************************************************************************)
EXTENDS Integers, Sequences, FiniteSets, TLC

(***************************************************************************)
(* Bounds of the model.                                                    *)
(***************************************************************************)
\* the text of a label element is at most MaxWords words of Words
MaxWords == 2
\* a placeholder or name attribute is at most MaxAttrWords words of Words
MaxAttrWords == 1
\* a select element has at most MaxOptions options
MaxOptions == 2
\* the list of opportunities has at most MaxOpps opportunities
MaxOpps == 3
\* fill_forms is given at most MaxForms opportunities
MaxForms == 2

(***************************************************************************)
(* Optional[str]: None is distinct from the empty string.                  *)
(***************************************************************************)
None == [none |-> TRUE, val |-> ""]
Some(v) == [none |-> FALSE, val |-> v]

(***************************************************************************)
(* Python string primitives.                                               *)
(***************************************************************************)
UpperChars == "ABCDEFGHIJKLMNOPQRSTUVWXYZ"
LowerChars == "abcdefghijklmnopqrstuvwxyz"

CharAt(s, i) == SubSeq(s, i, i)

\* the case mappings of the ASCII letters, as functions on characters
ToLower ==
  [c \in {CharAt(UpperChars, i) : i \in 1..26} |->
     CharAt(LowerChars, CHOOSE i \in 1..26 : CharAt(UpperChars, i) = c)]
ToUpper ==
  [c \in {CharAt(LowerChars, i) : i \in 1..26} |->
     CharAt(UpperChars, CHOOSE i \in 1..26 : CharAt(LowerChars, i) = c)]

IsUpper(c) == c \in DOMAIN ToLower
IsLower(c) == c \in DOMAIN ToUpper

LowerChar(c) == IF IsUpper(c) THEN ToLower[c] ELSE c
UpperChar(c) == IF IsLower(c) THEN ToUpper[c] ELSE c

\* str.lower()
RECURSIVE lower(_)
lower(s) ==
  IF s = "" THEN ""
  ELSE LowerChar(CharAt(s, 1)) \o lower(SubSeq(s, 2, Len(s)))

\* str.title(): a letter that follows a letter is lowercased, any other
\* letter is uppercased
RECURSIVE TitleFrom(_, _)
TitleFrom(s, prevCased) ==
  IF s = "" THEN ""
  ELSE LET c == CharAt(s, 1)
           cased == IsUpper(c) \/ IsLower(c)
       IN (IF prevCased THEN LowerChar(c) ELSE UpperChar(c))
            \o TitleFrom(SubSeq(s, 2, Len(s)), cased)

title(s) == TitleFrom(s, FALSE)

\* str.replace(a, b) for one-character a and b
RECURSIVE replace(_, _, _)
replace(s, a, b) ==
  IF s = "" THEN ""
  ELSE (IF CharAt(s, 1) = a THEN b ELSE CharAt(s, 1))
         \o replace(SubSeq(s, 2, Len(s)), a, b)

\* str.strip()
RECURSIVE lstrip(_)
lstrip(s) ==
  IF s # "" /\ CharAt(s, 1) = " " THEN lstrip(SubSeq(s, 2, Len(s))) ELSE s

RECURSIVE rstrip(_)
rstrip(s) ==
  IF s # "" /\ CharAt(s, Len(s)) = " "
    THEN rstrip(SubSeq(s, 1, Len(s) - 1)) ELSE s

strip(s) == rstrip(lstrip(s))

\* the Python test  k in s  on two strings
In(k, s) ==
  \E i \in 1..(Len(s) - Len(k) + 1) : SubSeq(s, i, i + Len(k) - 1) = k

\* sep.join(items)
RECURSIVE join(_, _)
join(sep, items) ==
  IF items = <<>> THEN ""
  ELSE IF Len(items) = 1 THEN items[1]
  ELSE items[1] \o sep \o join(sep, Tail(items))

(***************************************************************************)
(* The master document.  It is read from config/master_document.json; the  *)
(* model uses the defaults of the MasterDocument class (executive_summary  *)
(* abridged to its first clause).                                          *)
(***************************************************************************)
DefaultMasterDocument ==
  [ company |->
      [ name        |-> "KamandaLabs",
        description |-> "Uganda's first automated environmental-compliance platform",
        industry    |-> "Environmental Technology / GreenTech",
        stage       |-> "Early Stage / MVP",
        location    |-> "Uganda",
        website     |-> "https://kamandalabs.me" ],
    founder |->
      [ name       |-> "Kamanda Collins",
        email      |-> "kamandacollins004@gmail.com",
        phone      |-> "+256 771 594 776",
        background |-> "Final-year Petroleum and Mineral Geoscience student at Nkumba University" ],
    financial |->
      [ current_revenue         |-> "No revenue currently",
        funding_amount_requested |-> "$7,500",
        use_of_funds |->
          << "Complete cloud and deployment infrastructure",
             "Pay for NEMA legal review and formal environmental validation",
             "Host user onboarding workshops",
             "Cover basic tech operations (internet, computer maintenance)",
             "Convert pilot users into paid subscriptions by Q4 2025" >> ],
    executive_summary |->
      "KamandaLabs is Uganda's first automated environmental-compliance platform" ]

\* a master document whose file gives the company stage as the empty string
\* (company.stage is a plain str field: "" passes the validation)
NoStageDocument ==
  [ DefaultMasterDocument EXCEPT !.company.stage = "" ]

MasterDocuments == { DefaultMasterDocument, NoStageDocument }

(***************************************************************************)
(* IntelligentFormFiller: the lookup tables.  A Python dict iterates in    *)
(* insertion order, so each table is a sequence of <<key, value>> pairs.   *)
(***************************************************************************)
_create_field_mappings(doc) ==
  << <<"company_name",        doc.company.name>>,
     <<"organization_name",   doc.company.name>>,
     <<"business_name",       doc.company.name>>,
     <<"startup_name",        doc.company.name>>,
     <<"founder_name",        doc.founder.name>>,
     <<"applicant_name",      doc.founder.name>>,
     <<"contact_name",        doc.founder.name>>,
     <<"representative_name", doc.founder.name>>,
     <<"email",               doc.founder.email>>,
     <<"contact_email",       doc.founder.email>>,
     <<"email_address",       doc.founder.email>>,
     <<"phone",               doc.founder.phone>>,
     <<"phone_number",        doc.founder.phone>>,
     <<"telephone",           doc.founder.phone>>,
     <<"mobile",              doc.founder.phone>>,
     <<"website",             doc.company.website>>,
     <<"company_website",     doc.company.website>>,
     <<"url",                 doc.company.website>>,
     <<"description",         doc.company.description>>,
     <<"company_description", doc.company.description>>,
     <<"business_description", doc.company.description>>,
     <<"about",               doc.company.description>>,
     <<"summary",             doc.executive_summary>>,
     <<"overview",            doc.executive_summary>>,
     <<"pitch",               doc.executive_summary>>,
     <<"funding_amount",      doc.financial.funding_amount_requested>>,
     <<"funding_request",     doc.financial.funding_amount_requested>>,
     <<"investment_amount",   doc.financial.funding_amount_requested>>,
     <<"amount_requested",    doc.financial.funding_amount_requested>>,
     <<"industry",            doc.company.industry>>,
     <<"sector",              doc.company.industry>>,
     <<"category",            doc.company.industry>>,
     <<"location",            doc.company.location>>,
     <<"country",             doc.company.location>>,
     <<"city",                doc.company.location>>,
     <<"stage",               doc.company.stage>>,
     <<"company_stage",       doc.company.stage>>,
     <<"business_stage",      doc.company.stage>>,
     <<"use_of_funds",        join("; ", doc.financial.use_of_funds)>>,
     <<"funding_purpose",     join("; ", doc.financial.use_of_funds)>>,
     <<"revenue",             doc.financial.current_revenue>>,
     <<"current_revenue",     doc.financial.current_revenue>>,
     <<"background",          doc.founder.background>>,
     <<"founder_background",  doc.founder.background>>,
     <<"experience",          doc.founder.background>> >>

\* mutant: the founder_name patterns lack the generic word "name"
field_patterns_NoName ==
  << <<"company_name",   <<"company", "organization", "business", "startup", "entity">> >>,
     <<"founder_name",   <<"founder", "applicant", "contact", "representative">> >>,
     <<"email",          <<"email", "e-mail", "contact">> >>,
     <<"phone",          <<"phone", "telephone", "mobile", "contact">> >>,
     <<"website",        <<"website", "url", "web", "site">> >>,
     <<"description",    <<"description", "about", "summary", "overview", "pitch">> >>,
     <<"funding_amount", <<"amount", "funding", "request", "investment", "money">> >>,
     <<"industry",       <<"industry", "sector", "category", "field">> >>,
     <<"location",       <<"location", "address", "city", "country", "region">> >>,
     <<"stage",          <<"stage", "phase", "level", "status">> >> >>

field_patterns ==
  << <<"company_name",   <<"company", "organization", "business", "startup", "entity">> >>,
     <<"founder_name",   <<"name", "founder", "applicant", "contact", "representative">> >>,
     <<"email",          <<"email", "e-mail", "contact">> >>,
     <<"phone",          <<"phone", "telephone", "mobile", "contact">> >>,
     <<"website",        <<"website", "url", "web", "site">> >>,
     <<"description",    <<"description", "about", "summary", "overview", "pitch">> >>,
     <<"funding_amount", <<"amount", "funding", "request", "investment", "money">> >>,
     <<"industry",       <<"industry", "sector", "category", "field">> >>,
     <<"location",       <<"location", "address", "city", "country", "region">> >>,
     <<"stage",          <<"stage", "phase", "level", "status">> >> >>

\* key in d  and  d[key]  on a dict held as a sequence of pairs
HasKey(d, key) == \E i \in 1..Len(d) : d[i][1] = key
GetItem(d, key) == d[CHOOSE i \in 1..Len(d) : d[i][1] = key][2]

(***************************************************************************)
(* _determine_field_data, in its three blocks.                             *)
(***************************************************************************)
\* "Direct mapping lookup": the loop over field_mappings.items() returns at
\* the first key that is a substring of the lowercased label
RECURSIVE DirectMappingFrom(_, _, _)
DirectMappingFrom(i, mappings, label_lower) ==
  IF i > Len(mappings) THEN None
  ELSE IF In(mappings[i][1], label_lower) THEN Some(mappings[i][2])
  ELSE DirectMappingFrom(i + 1, mappings, label_lower)

\* mutant: the key is compared with the whole label (key == label_lower)
RECURSIVE DirectMappingExactFrom(_, _, _)
DirectMappingExactFrom(i, mappings, label_lower) ==
  IF i > Len(mappings) THEN None
  ELSE IF mappings[i][1] = label_lower THEN Some(mappings[i][2])
  ELSE DirectMappingExactFrom(i + 1, mappings, label_lower)

\* mutant: the loop runs over the table from its last key to its first
RECURSIVE DirectMappingBackFrom(_, _, _)
DirectMappingBackFrom(i, mappings, label_lower) ==
  IF i < 1 THEN None
  ELSE IF In(mappings[i][1], label_lower) THEN Some(mappings[i][2])
  ELSE DirectMappingBackFrom(i - 1, mappings, label_lower)

DirectMapping_Last(mappings, label_lower) ==
  DirectMappingBackFrom(Len(mappings), mappings, label_lower)

DirectMapping_Exact(mappings, label_lower) ==
  DirectMappingExactFrom(1, mappings, label_lower)

DirectMapping(mappings, label_lower) ==
  DirectMappingFrom(1, mappings, label_lower)

\* "Pattern matching": the nested loops over field_patterns.items() and the
\* patterns of each pattern type
mapping_key(pattern_type) ==
  IF pattern_type \in {"company", "founder"}
    THEN pattern_type \o "_name" ELSE pattern_type

RECURSIVE PatternMatchingFrom(_, _, _, _)
PatternMatchingFrom(t, p, mappings, label_lower) ==
  IF t > Len(field_patterns) THEN None
  ELSE IF p > Len(field_patterns[t][2])
    THEN PatternMatchingFrom(t + 1, 1, mappings, label_lower)
  ELSE IF /\ In(field_patterns[t][2][p], label_lower)
          /\ HasKey(mappings, mapping_key(field_patterns[t][1]))
    THEN Some(GetItem(mappings, mapping_key(field_patterns[t][1])))
  ELSE PatternMatchingFrom(t, p + 1, mappings, label_lower)

\* mutant: the pattern types are scanned from the last one to the first
RECURSIVE PatternMatchingBackFrom(_, _, _, _)
PatternMatchingBackFrom(t, p, mappings, label_lower) ==
  IF t < 1 THEN None
  ELSE IF p > Len(field_patterns[t][2])
    THEN PatternMatchingBackFrom(t - 1, 1, mappings, label_lower)
  ELSE IF /\ In(field_patterns[t][2][p], label_lower)
          /\ HasKey(mappings, mapping_key(field_patterns[t][1]))
    THEN Some(GetItem(mappings, mapping_key(field_patterns[t][1])))
  ELSE PatternMatchingBackFrom(t, p + 1, mappings, label_lower)

PatternMatching_Reversed(mappings, label_lower) ==
  PatternMatchingBackFrom(Len(field_patterns), 1, mappings, label_lower)

PatternMatching(mappings, label_lower) ==
  PatternMatchingFrom(1, 1, mappings, label_lower)

\* "Special cases" for email, phone and URL fields
\* mutant: the email case looks at the label only
SpecialCases_EmailByLabel(doc, field_type, label_lower) ==
  IF In("email", label_lower)
    THEN Some(doc.founder.email)
  ELSE IF \/ field_type = "tel"
          \/ \E word \in {"phone", "tel", "mobile"} : In(word, label_lower)
    THEN Some(doc.founder.phone)
  ELSE IF \/ field_type = "url"
          \/ \E word \in {"website", "url", "web"} : In(word, label_lower)
    THEN Some(doc.company.website)
  ELSE None

\* mutant: the URL case is tested before the phone case
SpecialCases_UrlFirst(doc, field_type, label_lower) ==
  IF field_type = "email" \/ In("email", label_lower)
    THEN Some(doc.founder.email)
  ELSE IF \/ field_type = "url"
          \/ \E word \in {"website", "url", "web"} : In(word, label_lower)
    THEN Some(doc.company.website)
  ELSE IF \/ field_type = "tel"
          \/ \E word \in {"phone", "tel", "mobile"} : In(word, label_lower)
    THEN Some(doc.founder.phone)
  ELSE None

\* mutant: the URL case has lost its condition and ends the function
SpecialCases_DefaultWebsite(doc, field_type, label_lower) ==
  IF field_type = "email" \/ In("email", label_lower)
    THEN Some(doc.founder.email)
  ELSE IF \/ field_type = "tel"
          \/ \E word \in {"phone", "tel", "mobile"} : In(word, label_lower)
    THEN Some(doc.founder.phone)
  ELSE Some(doc.company.website)

SpecialCases(doc, field_type, label_lower) ==
  IF field_type = "email" \/ In("email", label_lower)
    THEN Some(doc.founder.email)
  ELSE IF \/ field_type = "tel"
          \/ \E word \in {"phone", "tel", "mobile"} : In(word, label_lower)
    THEN Some(doc.founder.phone)
  ELSE IF \/ field_type = "url"
          \/ \E word \in {"website", "url", "web"} : In(word, label_lower)
    THEN Some(doc.company.website)
  ELSE None

\* return the first of two results that is not None
OrElse(first, second) == IF first.none THEN second ELSE first

\* mutant: the special cases of the field type come before the label lookups
DetermineFromLabel_KindFirst(doc, mappings, field_type, label_lower) ==
  OrElse(SpecialCases(doc, field_type, label_lower),
         OrElse(DirectMapping(mappings, label_lower),
                PatternMatching(mappings, label_lower)))

\* the three blocks in order, on the lowercased label
DetermineFromLabel(doc, mappings, field_type, label_lower) ==
  OrElse(DirectMapping(mappings, label_lower),
         OrElse(PatternMatching(mappings, label_lower),
                SpecialCases(doc, field_type, label_lower)))

_determine_field_data(doc, mappings, field) ==
  DetermineFromLabel(doc, mappings, field.field_type, lower(field.label))

(***************************************************************************)
(* Page elements.  An element of the form is an input (of one of the five  *)
(* types _extract_form_fields keeps), a textarea or a select.  label_text  *)
(* is the text of the label[for=id] element (None when the element has no  *)
(* id or the page has no such label), placeholder and name are the         *)
(* attributes of those names (None when absent).                           *)
(***************************************************************************)
\* the field types _extract_form_fields produces
FieldTypes == {"text", "email", "tel", "url", "number", "textarea", "select"}
InputTypes == {"text", "email", "tel", "url", "number"}

Words ==
  { "Email", "Address", "stage", "experience",
    "contact", "Tel", "Product", "Name", "U.R.L" }

\* the lists of at most n words, all different
RECURSIVE WordLists(_)
WordLists(n) ==
  IF n = 0 THEN {<<>>}
  ELSE WordLists(n - 1) \cup
       UNION { { Append(ws, w) : w \in Words \ {ws[i] : i \in 1..Len(ws)} } :
               ws \in WordLists(n - 1) }

\* the texts of at most n different words separated by single spaces
Texts(n) == { join(" ", ws) : ws \in WordLists(n) }

OptionTexts == {"", "Early Stage", "Growth Stage"}

\* the lists of at most n options, all different
RECURSIVE OptionLists(_)
OptionLists(n) ==
  IF n = 0 THEN {<<>>}
  ELSE OptionLists(n - 1) \cup
       UNION { { Append(os, o) :
                   o \in OptionTexts \ {os[i] : i \in 1..Len(os)} } :
               os \in OptionLists(n - 1) }

\* where the page carries the text of a field
TextSources == {"label", "placeholder", "name"}

Element(type, source, text, options) ==
  [ type        |-> type,
    label_text  |-> IF source = "label" THEN Some(text) ELSE None,
    placeholder |-> IF source = "placeholder" THEN Some(text) ELSE None,
    name        |-> IF source = "name" THEN Some(text) ELSE None,
    options     |-> options ]

\* the texts the page may carry in each place
TextsOf(source) ==
  IF source = "label" THEN Texts(MaxWords)
  ELSE IF source \in {"placeholder", "name"} THEN Texts(MaxAttrWords)
  ELSE {""}

\* the texts of an element of the given type: the text inputs carry every
\* text, the other types the short texts only, and a select, which has its
\* options as well, carries them in a label element
TextsFor(type, source) ==
  IF type = "text" THEN TextsOf(source)
  ELSE IF type = "select" /\ source \in {"placeholder", "name"} THEN {}
  ELSE TextsOf(source) \cap Texts(MaxAttrWords)

\* the texts of the elements filled from the master document: the default
\* document fills every element, the others fill the fields that are not
\* selects and have a short text in a label element
TextsUnder(doc, type, source) ==
  IF doc = DefaultMasterDocument THEN TextsFor(type, source)
  ELSE IF type # "select" /\ source = "label" THEN Texts(MaxAttrWords)
  ELSE {}

\* only a select element has options
OptionsOf(type) ==
  IF type = "select" THEN OptionLists(MaxOptions) ELSE {<<>>}

(***************************************************************************)
(* _get_field_label: the label text, else the placeholder, else the name   *)
(* attribute made readable, else "Unknown Field".                          *)
(***************************************************************************)
_get_field_label(element) ==
  IF ~element.label_text.none
    THEN strip(element.label_text.val)
  ELSE IF ~element.placeholder.none /\ element.placeholder.val # ""
    THEN strip(element.placeholder.val)
  ELSE IF ~element.name.none /\ element.name.val # ""
    THEN title(replace(replace(element.name.val, "_", " "), "-", " "))
  ELSE "Unknown Field"

\* FormField(element, field_type, label)
FormField(element, field_type, label) ==
  [ field_type |-> field_type, label |-> label ]

(***************************************************************************)
(* Filling.  Every operator returns a record: ret is the Python return     *)
(* value, value the text typed into the element (None: nothing typed),     *)
(* selected the index of the option selected (0: none; options are         *)
(* numbered from 1), exc whether an exception leaves the function, warned  *)
(* whether an except block caught one and logged the warning.              *)
(* webdriver_error says that Selenium raises on the element.               *)
(***************************************************************************)
Outcome(ret, value, selected, exc, warned) ==
  [ ret |-> ret, value |-> value, selected |-> selected, exc |-> exc,
    warned |-> warned ]

\* _fill_input_field and _fill_textarea_field: element.clear(),
\* element.send_keys(data)
_fill_input_field(data, webdriver_error) ==
  IF webdriver_error THEN Outcome(FALSE, None, 0, TRUE, FALSE)
  ELSE Outcome(TRUE, Some(data), 0, FALSE, FALSE)

\* mutant: the loop goes on after a match, the last accepting option stays
RECURSIVE SelectFrom_Last(_, _, _)
SelectFrom_Last(i, options, data_lower) ==
  IF i > Len(options) THEN 0
  ELSE IF SelectFrom_Last(i + 1, options, data_lower) # 0
    THEN SelectFrom_Last(i + 1, options, data_lower)
  ELSE IF In(data_lower, options[i]) \/ In(options[i], data_lower) THEN i
  ELSE 0

\* the loop of _fill_select_field over enumerate(options)
RECURSIVE SelectFrom(_, _, _)
SelectFrom(i, options, data_lower) ==
  IF i > Len(options) THEN 0
  ELSE IF In(data_lower, options[i]) \/ In(options[i], data_lower) THEN i
  ELSE SelectFrom(i + 1, options, data_lower)

\* mutant: the function returns True after the loop as well
SelectOption_AlwaysTrue(options, data_lower, webdriver_error) ==
  IF webdriver_error THEN Outcome(FALSE, None, 0, TRUE, FALSE)
  ELSE Outcome(TRUE, None, SelectFrom(1, options, data_lower), FALSE, FALSE)

\* the try block of _fill_select_field on the lowercased texts
SelectOption(options, data_lower, webdriver_error) ==
  IF webdriver_error                             \* Select(element) raises
    THEN Outcome(FALSE, None, 0, TRUE, FALSE)
  ELSE Outcome(SelectFrom(1, options, data_lower) # 0, None,
               SelectFrom(1, options, data_lower), FALSE, FALSE)

_fill_select_field(element, data, webdriver_error) ==
  LET body == SelectOption([i \in 1..Len(element.options) |->
                              lower(element.options[i])],
                           lower(data), webdriver_error)
  IN IF body.exc THEN Outcome(FALSE, None, 0, FALSE, TRUE)  \* except: False
     ELSE body

\* the body of the try block of _fill_field
FillFieldBody(field_data, field, element, webdriver_error) ==
  IF field_data.none \/ field_data.val = ""      \* if not field_data
    THEN Outcome(FALSE, None, 0, FALSE, FALSE)
  ELSE IF field.field_type \in InputTypes \cup {"textarea"}
    THEN _fill_input_field(field_data.val, webdriver_error)
  ELSE IF field.field_type = "select"
    THEN _fill_select_field(element, field_data.val, webdriver_error)
  ELSE Outcome(FALSE, None, 0, FALSE, FALSE)

_fill_field(field_data, field, element, webdriver_error) ==
  LET body == FillFieldBody(field_data, field, element, webdriver_error)
  IN IF body.exc                                          \* except: False
       THEN Outcome(FALSE, body.value, body.selected, FALSE, TRUE)
     ELSE body

(***************************************************************************)
(* State of the ranking.  TOP_OPPS is the module-level list every bot      *)
(* holds as self.opportunities; the callers rank it concurrently.  A list  *)
(* of opportunities is held as the list of their positions in TOP_OPPS,    *)
(* since the lists of the ranking hold references to the same dicts.       *)
(***************************************************************************)
VARIABLES
  TOP_OPPS,        \* the shared opportunity dicts
  rank_pc,         \* per caller: "idle", "loop", "sort", "returned"
  arg,             \* per caller: "opportunities" (self.opportunities) or
                   \*   "ranked" (the list the caller was returned before)
  opps,            \* per caller: the argument opps
  enriched,        \* per caller: the list enriched
  sort_keys,       \* per caller: the keys sorted() has computed so far
  returned         \* per caller: the list returned

ranker_vars ==
  << TOP_OPPS, rank_pc, arg, opps, enriched, sort_keys, returned >>

Callers == {"c1", "c2"}

\* no caller has called yet
NoCalls ==
  /\ rank_pc = [t \in Callers |-> "idle"]
  /\ arg = [t \in Callers |-> "opportunities"]
  /\ opps = [t \in Callers |-> <<>>]
  /\ enriched = [t \in Callers |-> <<>>]
  /\ sort_keys = [t \in Callers |-> <<>>]
  /\ returned = [t \in Callers |-> <<>>]

(***************************************************************************)
(* GrantApplicationBot.filter_opportunities_by_relevance (src/grant.py).   *)
(* An opportunity is a dict: name, url and type are carried along, focus   *)
(* is the list of its tags (the key may be missing), relevance_score is    *)
(* the key the ranking adds.                                               *)
(***************************************************************************)
NoFocus == [ none |-> TRUE, val |-> <<>> ]
NoScore == [ none |-> TRUE, val |-> 0 ]

Opportunity(name, type, focus) ==
  [ name |-> name, type |-> type, focus |-> focus, relevance_score |-> NoScore ]

\* the opportunities a list is made of: three of TOP_OPPS, one without the
\* focus key, one whose tags repeat a keyword and hold six of them
OpportunityPool ==
  { Opportunity("Google for Startups Accelerator Africa", "Accelerator",
                Some(<<"Climate", "Technology", "Africa">>)),
    Opportunity("UNDP-AFCIA (Climate Innovation)", "Grant",
                Some(<<"Climate Innovation", "Development">>)),
    Opportunity("FSD Africa - RegTech for Climate", "Grant",
                Some(<<"RegTech", "Climate", "Financial Services">>)),
    Opportunity("Untagged", "Grant", NoFocus),
    Opportunity("Everything", "Accelerator",
                Some(<<"climate", "Climate", "Mining", "Compliance",
                       "GovTech", "Africa", "Energy">>)) }

\* the lists of at most n opportunities, all different
RECURSIVE OpportunityLists(_)
OpportunityLists(n) ==
  IF n = 0 THEN {<<>>}
  ELSE OpportunityLists(n - 1) \cup
       UNION { { Append(os, o) :
                   o \in OpportunityPool \ {os[i] : i \in 1..Len(os)} } :
               os \in OpportunityLists(n - 1) }

keywords ==
  { "climate", "mining", "compliance", "govtech", "africa", "energy",
    "environment", "regtech", "saas" }

\* {f.lower() for f in opp.get("focus", [])}
focus_set(opp) ==
  LET focus == IF opp.focus.none THEN <<>> ELSE opp.focus.val
  IN { lower(focus[k]) : k \in 1..Len(focus) }

overlap(opp) == Cardinality(keywords \cap focus_set(opp))

min(a, b) == IF a <= b THEN a ELSE b

\* a mis-scoring: one point for each keyword
relevance_score_OnePoint(opp) == min(10, 2 + overlap(opp))

\* a score that builds on the score the opportunity already has
relevance_score_Accumulate(opp) ==
  IF opp.relevance_score.none THEN min(10, 2 + overlap(opp) * 2)
  ELSE min(10, opp.relevance_score.val + 2 + overlap(opp) * 2)

\* the value assigned to opp["relevance_score"]
relevance_score(opp) ==
  min(10, 2 + overlap(opp) * 2)

\* a sort that is not stable: an item goes before the items of equal key
RECURSIVE InsertByKeyBefore(_, _, _)
InsertByKeyBefore(done, k, keys) ==
  IF done = <<>> THEN <<k>>
  ELSE IF keys[Head(done)] > keys[k]
    THEN <<Head(done)>> \o InsertByKeyBefore(Tail(done), k, keys)
  ELSE <<k>> \o done

RECURSIVE SortedPositions_Unstable(_, _)
SortedPositions_Unstable(n, keys) ==
  IF n = 0 THEN <<>>
  ELSE InsertByKeyBefore(SortedPositions_Unstable(n - 1, keys), n, keys)

\* sorted(items, key=..., reverse=True) where keys[k] is the key of
\* items[k]: a stable sort, so an item goes behind every item sorted so far
\* whose key is at least its own.  The result is a list of positions of
\* items.
RECURSIVE InsertByKey(_, _, _)
InsertByKey(done, k, keys) ==
  IF done = <<>> THEN <<k>>
  ELSE IF keys[Head(done)] >= keys[k]
    THEN <<Head(done)>> \o InsertByKey(Tail(done), k, keys)
  ELSE <<k>> \o done

RECURSIVE SortedPositions(_, _)
SortedPositions(n, keys) ==
  IF n = 0 THEN <<>>
  ELSE InsertByKey(SortedPositions(n - 1, keys), n, keys)

\* a ranking that keeps the opportunities above the base score only
sorted_reverse_Filtered(items, keys) ==
  LET order == SelectSeq(SortedPositions(Len(items), keys),
                         LAMBDA k : keys[k] > 2)
  IN [ k \in 1..Len(order) |-> items[order[k]] ]

sorted_reverse(items, keys) ==
  LET order == SortedPositions(Len(items), keys)
  IN [ k \in 1..Len(items) |-> items[order[k]] ]

(***************************************************************************)
(* GrantApplicationBot: label resolution (src/grant.py).  A JSON value is  *)
(* a record: kind "none" (Python None), "str" (str holds the text), "list" *)
(* (items holds the values) or "dict" (items holds <<key, value>> pairs in *)
(* insertion order).                                                       *)
(***************************************************************************)
JNone == [ kind |-> "none", str |-> "", items |-> <<>> ]
JStr(s) == [ kind |-> "str", str |-> s, items |-> <<>> ]
JList(items) == [ kind |-> "list", str |-> "", items |-> items ]
JDict(items) == [ kind |-> "dict", str |-> "", items |-> items ]

\* a master document with the structure main() shows as expected, and the
\* founder contact keys that create_field_mappings looks up
NestedProfile ==
  JDict(<< <<"company_info",
             JDict(<< <<"name", JStr("KamandaLabs")>>,
                      <<"tagline", JStr("Building Africa's compliance ecosystem")>>,
                      <<"location", JStr("Uganda")>>,
                      <<"website", JStr("kamandalabs.me")>> >>)>>,
           <<"founder",
             JDict(<< <<"name", JStr("Kamanda Collins")>>,
                      <<"email", JStr("kamandacollins004@gmail.com")>> >>)>>,
           <<"problem_statement", JStr("Compliance is manual")>>,
           <<"financials",
             JDict(<< <<"funding_sought", JStr("50000-200000")>>,
                      <<"use_of_funds",
                        JList(<< JStr("Infrastructure"), JStr("Legal review") >>)>> >>)>> >>)

\* a master document that is valid JSON but gives the founder and the
\* company as plain strings
FlatProfile ==
  JDict(<< <<"company_info", JStr("KamandaLabs")>>,
           <<"founder", JStr("Kamanda Collins")>> >>)

\* what can be pasted or uploaded as master document: text that is not
\* JSON (JNone stands for it), or a JSON value
JsonInputs == { JNone, NestedProfile, FlatProfile }

\* GrantApplicationBot.create_field_mappings: label key -> path
create_field_mappings ==
  << <<"company_name",    <<"company_info", "name">> >>,
     <<"company_tagline", <<"company_info", "tagline">> >>,
     <<"founder_name",    <<"founder", "name">> >>,
     <<"founder_email",   <<"founder", "email">> >>,
     <<"problem",         <<"problem_statement">> >>,
     <<"solution",        <<"solution">> >>,
     <<"funding_amount",  <<"financials", "funding_sought">> >>,
     <<"use_of_funds",    <<"financials", "use_of_funds">> >>,
     <<"website",         <<"company_info", "website">> >>,
     <<"location",        <<"company_info", "location">> >>,
     <<"pitch_deck",      <<"urls", "pitch_deck">> >>,
     <<"linkedin",        <<"founder", "linkedin">> >>,
     <<"phone",           <<"founder", "phone">> >>,
     <<"dob",             <<"founder", "dob">> >>,
     <<"gender",          <<"founder", "gender">> >>,
     <<"nationality",     <<"founder", "nationality">> >> >>

\* the result of a call: the value returned (JNone for None), or raises
Returns(v) == [ raises |-> FALSE, val |-> v ]
Raises == [ raises |-> TRUE, val |-> JNone ]

\* get_value: d = d.get(key, {}) along the path; .get exists on a dict only
RECURSIVE GetAlong(_, _)
GetAlong(d, path) ==
  IF path = <<>> THEN Returns(IF d = JDict(<<>>) THEN JNone ELSE d)
  ELSE IF d.kind # "dict" THEN Raises                  \* AttributeError
  ELSE GetAlong(IF HasKey(d.items, Head(path)) THEN GetItem(d.items, Head(path))
                ELSE JDict(<<>>),
                Tail(path))

get_value(data, path) ==
  GetAlong(data, path)

\* re.sub(r"[^\w\s]", "", s): letters, digits, underscores and blanks stay
WordOrSpaceChars == "abcdefghijklmnopqrstuvwxyzABCDEFGHIJKLMNOPQRSTUVWXYZ0123456789_ "

RECURSIVE remove_punctuation(_)
remove_punctuation(s) ==
  IF s = "" THEN ""
  ELSE (IF In(CharAt(s, 1), WordOrSpaceChars) THEN CharAt(s, 1) ELSE "")
         \o remove_punctuation(SubSeq(s, 2, Len(s)))

\* fuzz.partial_ratio is 100 exactly when the shorter text occurs in the
\* longer one, and 0 when one of them is empty
FullScore(query, key) ==
  /\ query # ""
  /\ In(key, query) \/ In(query, key)

\* the first key with the highest score, when that score is 100
RECURSIVE FirstFullScore(_, _, _)
FirstFullScore(i, mappings, query) ==
  IF i > Len(mappings) THEN 0
  ELSE IF FullScore(query, mappings[i][1]) THEN i
  ELSE FirstFullScore(i + 1, mappings, query)

\* process.extractOne(label_clean, keys, scorer=fuzz.partial_ratio): the
\* set of <<position of best, score>> it can return.  When no key scores
\* 100 the score is what difflib computes for the closest key; the model
\* leaves the key and the side of the threshold open.
extractOne(label_clean, mappings) ==
  LET query == strip(label_clean)              \* the default processor
      full == FirstFullScore(1, mappings, query)
  IN IF full # 0 THEN { << full, 100 >> }
     ELSE IF query = "" THEN { << 1, 0 >> }
     ELSE { << i, score >> : i \in 1..Len(mappings), score \in {69, 70} }

\* fill_form_field(label), for one of the outcomes of extractOne
fill_form_field(data, mappings, label, best) ==
  IF best[2] < 70 THEN Returns(JNone)
  ELSE get_value(data, mappings[best[1]][2])

\* str(value) of a JSON value: a string is itself, a list or a dict is its
\* Python repr (the strings of the model hold no quote and no backslash)
RECURSIVE repr(_)
repr(j) ==
  IF j.kind = "none" THEN "None"
  ELSE IF j.kind = "str" THEN "'" \o j.str \o "'"
  ELSE IF j.kind = "list"
    THEN "[" \o join(", ", [i \in 1..Len(j.items) |-> repr(j.items[i])]) \o "]"
  ELSE "{" \o join(", ", [i \in 1..Len(j.items) |->
                            "'" \o j.items[i][1] \o "': "
                              \o repr(j.items[i][2])]) \o "}"

str(j) ==
  IF j.kind = "str" THEN j.str ELSE repr(j)

\* bool(x) of a JSON value
Truthy(j) ==
  \/ j.kind = "str" /\ j.str # ""
  \/ j.kind \in {"list", "dict"} /\ j.items # <<>>

\* the status dict of apply_to_opportunity; submitted is "absent" when the
\* dict has no such key
Status(status, filled_fields, dry_run, submitted) ==
  [ status |-> status, filled_fields |-> filled_fields,
    dry_run |-> dry_run, submitted |-> submitted ]

NoStatus == Status("none", 0, FALSE, "absent")

\* what a call of apply_to_opportunity leaves: the dict returned, whether
\* the call raised, the text typed in the input, whether the submit button
\* was clicked, whether a file was sent to the input, and the driver
Applied(status, raises, val, typed, clicked, uploaded, driver) ==
  [ status |-> status, raises |-> raises, val |-> val, typed |-> typed,
    clicked |-> clicked, uploaded |-> uploaded, driver |-> driver ]

InputTypesOfBot == {"text", "file"}
BotVisits == {"chrome_fails", "page_fails", "page"}
SubmitButtons == {"missing", "click_fails", "clicks"}

\* mutant: the submit button is looked up and clicked whatever dry_run is
Submit_Always(dry_run, button, filled, val, typed, uploaded) ==
  IF button = "clicks"
    THEN Applied(Status("success", filled, dry_run, "true"), FALSE, val,
                 typed, TRUE, uploaded, "quit")
  ELSE Applied(Status("error", 0, FALSE, "absent"), FALSE, val,
               typed, FALSE, uploaded, "quit")

\* the end of the try block of apply_to_opportunity: the status dict and
\* the `if not dry_run` block
Submit(dry_run, button, filled, val, typed, uploaded) ==
  IF dry_run
    THEN Applied(Status("success", filled, dry_run, "false"), FALSE, val,
                 typed, FALSE, uploaded, "quit")
  ELSE IF button = "clicks"
    THEN Applied(Status("success", filled, dry_run, "true"), FALSE, val,
                 typed, TRUE, uploaded, "quit")
  \* find_element or click raises: the except block returns the error dict
  ELSE Applied(Status("error", 0, FALSE, "absent"), FALSE, val,
               typed, FALSE, uploaded, "quit")

\* apply_to_opportunity(opp, dry_run) on a page with one input, whose
\* placeholder is empty and whose name is the label; deck_exists is
\* os.path.exists(deck_path)
apply_to_opportunity(data, mappings, label, best, dry_run, visit, type, enabled, deck_exists, button) ==
  LET out == fill_form_field(data, mappings, label, best)
      fills == ~out.raises /\ Truthy(out.val) /\ enabled /\ type # "file"
      typed == IF fills THEN Some(str(out.val)) ELSE None
      deck == get_value(data, <<"urls", "pitch_deck">>)
      pitch == type = "file" /\ In("pitch", lower(label))
  IN IF visit = "chrome_fails"          \* webdriver.Chrome raises: no driver
       THEN Applied(NoStatus, TRUE, JNone, None, FALSE, FALSE, "none")
     ELSE IF visit = "page_fails"       \* driver.get or the wait raises
       THEN Applied(Status("error", 0, FALSE, "absent"), FALSE, JNone, None,
                    FALSE, FALSE, "quit")
     ELSE IF out.raises                 \* fill_form_field raises
       THEN Applied(Status("error", 0, FALSE, "absent"), FALSE, JNone, None,
                    FALSE, FALSE, "quit")
     ELSE IF pitch /\ deck.raises       \* get_value raises
       THEN Applied(Status("error", 0, FALSE, "absent"), FALSE, out.val,
                    typed, FALSE, FALSE, "quit")
     ELSE Submit(dry_run, button, IF fills THEN 1 ELSE 0, out.val, typed,
                 pitch /\ Truthy(deck.val) /\ deck_exists)

(***************************************************************************)
(* State of the bot.                                                       *)
(***************************************************************************)
VARIABLES
  master_data,     \* GrantApplicationBot.master_data
  bot_label,       \* the placeholder or name of the input of the page
  bot_value,       \* the value it returned (JNone for None)
  bot_raised,      \* it raised
  bot_dry_run,     \* the dry_run argument of apply_to_opportunity
  bot_status,      \* the dict apply_to_opportunity returned
  bot_typed,       \* the text sent to the input
  bot_clicked,     \* the submit button was clicked
  bot_uploaded,    \* a file path was sent to the input
  bot_driver,      \* the driver of the call: "none", "open", "quit"
  bot_pc           \* "off", "ready", "resolved", "applied"

bot_vars == << master_data, bot_label, bot_value, bot_raised, bot_dry_run,
               bot_status, bot_typed, bot_clicked, bot_uploaded, bot_driver,
               bot_pc >>

\* what is left of a call of apply_to_opportunity when it has not been made
\* or another call has been made since
NotApplied ==
  /\ bot_dry_run = TRUE
  /\ bot_status = NoStatus
  /\ bot_typed = None
  /\ bot_clicked = FALSE
  /\ bot_uploaded = FALSE
  /\ bot_driver = "none"

\* a call of another method: nothing is left of the last call of
\* apply_to_opportunity
ClearApplied ==
  /\ bot_dry_run' = TRUE
  /\ bot_status' = NoStatus
  /\ bot_typed' = None
  /\ bot_clicked' = FALSE
  /\ bot_uploaded' = FALSE
  /\ bot_driver' = "none"

\* no bot has been made
BotOff ==
  /\ master_data = JNone
  /\ bot_label = ""
  /\ bot_value = JNone
  /\ bot_raised = FALSE
  /\ NotApplied
  /\ bot_pc = "off"

(***************************************************************************)
(* fill_forms (src/form_filler/__init__.py): the master document is        *)
(* loaded, a form filler is built from it, the form of every opportunity   *)
(* is filled, the driver is closed.                                        *)
(***************************************************************************)
\* a master document other than the default one
CustomMasterDocument ==
  [ DefaultMasterDocument EXCEPT !.company.name = "Acme Mining",
                                 !.founder.email = "info@acme.example" ]

\* config/master_document.json: "missing", "default" and "custom" (it holds
\* that document), "not_json" (json.load raises), "wrong_type" (it is JSON
\* but MasterDocument(**data) raises a validation error)
ConfigFiles == {"missing", "default", "custom", "not_json", "wrong_type"}

\* load_master_document: the document returned, whether the call raises,
\* and the file afterwards
load_master_document(file) ==
  IF file = "missing"
    THEN [ raises |-> FALSE, doc |-> DefaultMasterDocument, file |-> "default" ]
  ELSE IF file = "custom"
    THEN [ raises |-> FALSE, doc |-> CustomMasterDocument, file |-> file ]
  ELSE IF file = "default"
    THEN [ raises |-> FALSE, doc |-> DefaultMasterDocument, file |-> file ]
  ELSE \* except Exception: print the error, return MasterDocument()
       [ raises |-> FALSE, doc |-> DefaultMasterDocument, file |-> file ]

\* the form filler that does not exist yet, and IntelligentFormFiller(doc)
NoFormFiller ==
  [ built |-> FALSE, master_doc |-> DefaultMasterDocument,
    field_mappings |-> <<>>, driver |-> "none" ]

IntelligentFormFiller(doc) ==
  [ built |-> TRUE, master_doc |-> doc,
    field_mappings |-> _create_field_mappings(doc), driver |-> "none" ]

\* the forms the pages show: the fields of the first form of a page
Pages ==
  { <<>>,
    << Element("email", "none", "", <<>>) >>,
    << Element("text", "label", "Product", <<>>) >>,
    << Element("text", "label", "Email Address", <<>>),
       Element("select", "label", "stage", <<"Growth Stage">>) >> }

\* what happens when a page is visited: the driver cannot be started, the
\* page or its form does not load in time, the page shows no form, or the
\* form is there
Visits == {"driver_fails", "page_fails", "no_forms", "form"}

\* the number of fields of the page that _fill_field fills
RECURSIVE FieldsFilled(_, _, _)
FieldsFilled(filler, page, webdriver_error) ==
  IF page = <<>> THEN 0
  ELSE LET e == Head(page)
           f == FormField(e, e.type, _get_field_label(e))
           data == _determine_field_data(filler.master_doc, filler.field_mappings, f)
       IN (IF _fill_field(data, f, e, webdriver_error).ret THEN 1 ELSE 0)
            + FieldsFilled(filler, Tail(page), webdriver_error)

Result(url, success, fields_filled, total_fields, errors, submitted) ==
  [ url |-> url, success |-> success, fields_filled |-> fields_filled,
    total_fields |-> total_fields, errors |-> errors, submitted |-> submitted ]

\* mutant: the form is submitted when submit is set, filled or not
\* (`if submit:`)
fill_form_SubmitUnfilled(filler, form_url, submit, visit, page, webdriver_error, submit_error) ==
  IF filler.driver = "none" /\ visit = "driver_fails"
    THEN [ result |-> Result(form_url, FALSE, 0, 0, <<"General error">>, FALSE),
           driver |-> "none" ]
  ELSE IF visit \in {"driver_fails", "page_fails"}
    THEN [ result |-> Result(form_url, FALSE, 0, 0, <<"General error">>, FALSE),
           driver |-> "open" ]
  ELSE IF visit = "no_forms"
    THEN [ result |-> Result(form_url, FALSE, 0, 0,
                             <<"No forms found on the page">>, FALSE),
           driver |-> "open" ]
  ELSE LET n == FieldsFilled(filler, page, webdriver_error)
           success == n > 0
       IN [ result |-> Result(form_url, success, n, Len(page), <<>>,
                              submit /\ ~submit_error),
            driver |-> "open" ]

\* fill_form(form_url, submit): the result and the driver afterwards
fill_form(filler, form_url, submit, visit, page, webdriver_error, submit_error) ==
  IF filler.driver = "none" /\ visit = "driver_fails"
    THEN [ result |-> Result(form_url, FALSE, 0, 0, <<"General error">>, FALSE),
           driver |-> "none" ]
  ELSE IF visit \in {"driver_fails", "page_fails"}
    THEN [ result |-> Result(form_url, FALSE, 0, 0, <<"General error">>, FALSE),
           driver |-> "open" ]
  ELSE IF visit = "no_forms"
    THEN [ result |-> Result(form_url, FALSE, 0, 0,
                             <<"No forms found on the page">>, FALSE),
           driver |-> "open" ]
  ELSE LET n == FieldsFilled(filler, page, webdriver_error)
           success == n > 0
       IN [ result |-> Result(form_url, success, n, Len(page), <<>>,
                              submit /\ success /\ ~submit_error),
            driver |-> "open" ]

VARIABLES
  config_file,     \* config/master_document.json
  loaded,          \* the document load_master_document returned (Optional)
  load_raised,     \* load_master_document raised
  form_filler,     \* the IntelligentFormFiller of fill_forms
  submit,          \* the argument submit of fill_forms
  todo,            \* the opportunities not processed yet (their urls)
  results,         \* the list results
  forms_pc         \* "start", "loaded", "filling", "returned", "aborted"

forms_vars ==
  << config_file, loaded, load_raised, form_filler, submit, todo, results,
     forms_pc >>

NoDocument == [ none |-> TRUE, val |-> DefaultMasterDocument ]

\* fill_forms has not been called
FormsOff ==
  /\ config_file = "default"
  /\ loaded = NoDocument
  /\ load_raised = FALSE
  /\ form_filler = NoFormFiller
  /\ submit = FALSE
  /\ todo = <<>>
  /\ results = <<>>
  /\ forms_pc = "off"

(***************************************************************************)
(* The submitter: ApplicationSubmitter.submit_application and              *)
(* submit_applications.                                                    *)
(***************************************************************************)
\* a form result as submit_application reads it: its url and its success
FormResult(url, success) == [ url |-> url, success |-> success ]

FormResults == { FormResult("https://example.com/grant-form", s) : s \in BOOLEAN }

\* the lists of at most n form results
RECURSIVE FormResultLists(_)
FormResultLists(n) ==
  IF n = 0 THEN {<<>>}
  ELSE FormResultLists(n - 1) \cup
       { Append(rs, r) : rs \in FormResultLists(n - 1), r \in FormResults }

\* what a call of submit_application meets: the driver cannot be started
\* (webdriver.Chrome raises), it is started and set_page_load_timeout
\* raises, the page does not load, or the page is there and has or has not
\* a submission element, a required field that is empty, a validation
\* error that is displayed; the validation raises in its first or in its
\* second lookup or in none; the click raises or not; a confirmation shows
\* or not
Scenario(visit, found, required_empty, error_displayed, validation_raises, click_fails, confirmed) ==
  [ visit |-> visit, found |-> found, required_empty |-> required_empty,
    error_displayed |-> error_displayed,
    validation_raises |-> validation_raises, click_fails |-> click_fails,
    confirmed |-> confirmed ]

Scenarios ==
  { Scenario(v, FALSE, FALSE, FALSE, "none", FALSE, FALSE) :
      v \in {"chrome_fails", "timeout_fails", "page_fails", "page"} }
  \cup
  { Scenario("page", TRUE, r, e, v, c, k) :
      r \in BOOLEAN, e \in BOOLEAN, v \in {"none", "first", "second"},
      c \in BOOLEAN, k \in BOOLEAN }

\* _validate_before_submission: valid and errors.  An exception of the first
\* lookup leaves the result as it was created (valid), one of the second
\* lookup leaves what the required fields gave.
_validate_before_submission(scenario) ==
  LET required == IF scenario.validation_raises # "first" /\ scenario.required_empty
                    THEN <<"Required field is empty">> ELSE <<>>
      displayed == IF scenario.validation_raises = "none" /\ scenario.error_displayed
                     THEN <<"Validation error">> ELSE <<>>
  IN [ valid |-> required \o displayed = <<>>, errors |-> required \o displayed ]

\* the dict submit_application returns
SubmissionResult(url, submitted, confirmation_message, errors, dry_run) ==
  [ url |-> url, submitted |-> submitted,
    confirmation_message |-> confirmation_message, errors |-> errors,
    dry_run |-> dry_run ]

\* what a call of submit_application did: the success the form result
\* reported, whether a submission element was found, whether the
\* validation was passed, whether the submission element was clicked
Call(success, found, valid, clicked) ==
  [ success |-> success, found |-> found, valid |-> valid, clicked |-> clicked ]

\* the result, what the call did, and the driver afterwards
Submission(result, call, driver) ==
  [ result |-> result, call |-> call, driver |-> driver ]

\* mutant: the submission element is clicked without the validation
submit_application_Unvalidated(driver, form_result, dry_run, scenario) ==
  LET url == form_result.url
      failed(error, d) ==
        Submission(SubmissionResult(url, FALSE, None, <<error>>, dry_run),
                   Call(form_result.success, FALSE, FALSE, FALSE), d)
      validation == _validate_before_submission(scenario)
  IN IF ~form_result.success
       THEN failed("Form filling was not successful", driver)
     ELSE IF driver = "none" /\ scenario.visit = "chrome_fails"
       THEN failed("Error during submission", "none")
     ELSE IF scenario.visit # "page"
       THEN failed("Error during submission", "open")
     ELSE IF ~scenario.found
       THEN failed("No submission button found", "open")
     ELSE IF dry_run
       THEN Submission(SubmissionResult(url, TRUE, Some("DRY RUN"), <<>>, dry_run),
                       Call(TRUE, TRUE, validation.valid, FALSE), "open")
     ELSE IF scenario.click_fails
       THEN Submission(SubmissionResult(url, FALSE, None,
                                        <<"Error during submission">>, dry_run),
                       Call(TRUE, TRUE, validation.valid, FALSE), "open")
     ELSE IF scenario.confirmed
       THEN Submission(SubmissionResult(url, TRUE, Some("confirmation"), <<>>, dry_run),
                       Call(TRUE, TRUE, validation.valid, TRUE), "open")
     ELSE Submission(SubmissionResult(url, FALSE, None,
                       <<"No confirmation received after submission">>, dry_run),
                     Call(TRUE, TRUE, validation.valid, TRUE), "open")

\* submit_application(form_result, dry_run) of a submitter whose driver is
\* "none" or "open"
submit_application(driver, form_result, dry_run, scenario) ==
  LET url == form_result.url
      failed(error, d) ==
        Submission(SubmissionResult(url, FALSE, None, <<error>>, dry_run),
                   Call(form_result.success, FALSE, FALSE, FALSE), d)
      validation == _validate_before_submission(scenario)
  IN IF ~form_result.success
       THEN failed("Form filling was not successful", driver)
     \* setup_driver: webdriver.Chrome raises, self.driver stays None
     ELSE IF driver = "none" /\ scenario.visit = "chrome_fails"
       THEN failed("Error during submission", "none")
     \* set_page_load_timeout or driver.get raises: the driver is there
     ELSE IF scenario.visit # "page"
       THEN failed("Error during submission", "open")
     ELSE IF ~scenario.found
       THEN failed("No submission button found", "open")
     ELSE IF ~validation.valid
       THEN Submission(SubmissionResult(url, FALSE, None, validation.errors, dry_run),
                       Call(TRUE, TRUE, FALSE, FALSE), "open")
     ELSE IF dry_run
       THEN Submission(SubmissionResult(url, TRUE, Some("DRY RUN"), <<>>, dry_run),
                       Call(TRUE, TRUE, TRUE, FALSE), "open")
     ELSE IF scenario.click_fails         \* submit_button.click() raises
       THEN Submission(SubmissionResult(url, FALSE, None,
                                        <<"Error during submission">>, dry_run),
                       Call(TRUE, TRUE, TRUE, FALSE), "open")
     ELSE IF scenario.confirmed
       THEN Submission(SubmissionResult(url, TRUE, Some("confirmation"), <<>>, dry_run),
                       Call(TRUE, TRUE, TRUE, TRUE), "open")
     ELSE Submission(SubmissionResult(url, FALSE, None,
                       <<"No confirmation received after submission">>, dry_run),
                     Call(TRUE, TRUE, TRUE, TRUE), "open")

\* close_driver of the three components: quit and forget the driver there
\* is, nothing otherwise
\* mutant: close_driver forgets nothing
close_driver_Keep(driver) ==
  driver

close_driver(driver) ==
  IF driver = "open" THEN "none" ELSE driver

VARIABLES
  subm_driver,     \* ApplicationSubmitter.driver: "none", "open"
  subm_dry_run,    \* the argument dry_run of submit_applications
  subm_todo,       \* the form results not processed yet
  subm_results,    \* the list submission_results
  subm_calls,      \* what each call of submit_application did
  subm_pc          \* "off", "submitting", "returned"

subm_vars == << subm_driver, subm_dry_run, subm_todo, subm_results,
                subm_calls, subm_pc >>

\* submit_applications has not been called
SubmitOff ==
  /\ subm_driver = "none"
  /\ subm_dry_run = TRUE
  /\ subm_todo = <<>>
  /\ subm_results = <<>>
  /\ subm_calls = <<>>
  /\ subm_pc = "off"

(***************************************************************************)
(* The scraper: OpportunityScraper.discover_opportunities and the function *)
(* discover_opportunities around it.                                       *)
(***************************************************************************)
\* OpportunityScraper.sources, by name
sources == << "Grants.gov", "AngelList", "Techstars", "Y Combinator", "SBIR" >>

\* setup_driver: it returns, webdriver.Chrome raises, or the driver is
\* started and set_page_load_timeout raises
Setups == {"ok", "chrome_fails", "timeout_fails"}

\* the scraping of one source: opportunities are appended, none is, or it
\* raises
Scrapings == {"found", "nothing", "raises"}

VARIABLES
  scr_driver,      \* OpportunityScraper.driver: "none", "open"
  scr_todo,        \* the sources not scraped yet
  scr_found,       \* OpportunityScraper.opportunities, by source
  scr_raised,      \* an exception is on its way out of the method
  scr_pc           \* "off", "start", "scraping", "closed", "returned"

scr_vars == << scr_driver, scr_todo, scr_found, scr_raised, scr_pc >>

\* discover_opportunities has not been called
ScrapeOff ==
  /\ scr_driver = "none"
  /\ scr_todo = <<>>
  /\ scr_found = <<>>
  /\ scr_raised = FALSE
  /\ scr_pc = "off"

(***************************************************************************)
(* The activity log: GrantApplicationLogger.log_activity on the file       *)
(* logs/activity.json.                                                     *)
(***************************************************************************)
\* the number of entries log_activity keeps (activities[-1000:])
ActivityLimit == 1000

MaxLogCalls == 6

ActivityTypes == {"application_start", "error"}

\* an activity; the timestamp is the number of the entry among all those
\* ever logged
Activity(timestamp, type) == [ timestamp |-> timestamp, type |-> type ]

\* the file: absent, not JSON, or a JSON list of activities
NoFile == [ state |-> "absent", activities |-> <<>> ]
CorruptFile == [ state |-> "corrupt", activities |-> <<>> ]
ListFile(activities) == [ state |-> "list", activities |-> activities ]

\* the entries of earlier sessions
Earlier(n) == [ i \in 1..n |-> Activity(i, "application_start") ]

\* the file as a session finds it
ActivityFiles ==
  { NoFile, CorruptFile }
  \cup { ListFile(Earlier(n)) : n \in {0, ActivityLimit - 2, ActivityLimit} }

\* activities[-n:]
Last(activities, n) ==
  IF Len(activities) <= n THEN activities
  ELSE SubSeq(activities, Len(activities) - n + 1, Len(activities))

\* mutant: the first entries are kept (activities[:1000])
log_activity_KeepFirst(file, activity) ==
  LET activities == IF file.state = "list" THEN file.activities ELSE <<>>
  IN ListFile(SubSeq(Append(activities, activity), 1,
                     IF Len(activities) + 1 <= ActivityLimit
                       THEN Len(activities) + 1 ELSE ActivityLimit))

\* log_activity: the file it writes
log_activity(file, activity) ==
  LET activities == IF file.state = "list" THEN file.activities ELSE <<>>
  IN ListFile(Last(Append(activities, activity), ActivityLimit))

VARIABLES
  activity_log,    \* the file logs/activity.json
  logged,          \* every activity logged so far, in logging order
  log_calls,       \* the number of calls of log_activity
  log_pc           \* "off", "ready", "logged"

log_vars == << activity_log, logged, log_calls, log_pc >>

\* the logger is not used
LogOff ==
  /\ activity_log = NoFile
  /\ logged = <<>>
  /\ log_calls = 0
  /\ log_pc = "off"

\* the state of the submitter, the scraper and the activity log
apps_vars == << subm_vars, scr_vars, log_vars >>

AppsOff == SubmitOff /\ ScrapeOff /\ LogOff

\* the state outside the form filler
outside_filler == << ranker_vars, bot_vars, forms_vars, apps_vars >>

(***************************************************************************)
(* State of the form filler.                                               *)
(***************************************************************************)
VARIABLES
  master_doc,      \* IntelligentFormFiller.master_doc
  field_mappings,  \* IntelligentFormFiller.field_mappings
  element,         \* the page element being processed
  field,           \* the FormField made from it
  field_data,      \* the result of _determine_field_data for the field
  filled,          \* the return value of _fill_field
  value,           \* the text typed into the element (Optional)
  selected,        \* the index of the option selected in a select (0: none)
  raised,          \* an exception left _fill_field
  warned,          \* an except block of the filling logged a warning
  pc               \* "extract", "fill", "done", "again" (filled once more)

filler_vars ==
  << master_doc, field_mappings, element, field, field_data, filled, value,
     selected, raised, warned, pc >>

vars == << filler_vars, ranker_vars, bot_vars, forms_vars, apps_vars >>

outside_ranker == << filler_vars, bot_vars, forms_vars, apps_vars >>

NoField == FormField(None, "", "")

\* IntelligentFormFiller.__init__ and the page as it is found
Init ==
  /\ master_doc \in MasterDocuments
  /\ field_mappings = _create_field_mappings(master_doc)
  /\ \E type \in FieldTypes, source \in TextSources \cup {"none"} :
     \E text \in TextsUnder(master_doc, type, source) :
     \E options \in OptionsOf(type) :
       element = Element(type, source, text, options)
  /\ field = NoField
  /\ field_data = None
  /\ filled = FALSE
  /\ value = None
  /\ selected = 0
  /\ raised = FALSE
  /\ warned = FALSE
  /\ pc = "extract"
  /\ TOP_OPPS = <<>>
  /\ NoCalls
  /\ BotOff
  /\ FormsOff
  /\ AppsOff

\* _extract_form_fields on the element: its label and its FormField
ExtractFormField ==
  /\ pc = "extract"
  /\ field' = FormField(element, element.type, _get_field_label(element))
  /\ pc' = "fill"
  /\ UNCHANGED << master_doc, field_mappings, element, field_data, filled,
                  value, selected, raised, warned >>
  /\ UNCHANGED outside_filler

\* a _fill_field that also records the value it found under the first key
FillField_Remap ==
  /\ pc \in {"fill", "done"}
  /\ \E data \in {_determine_field_data(master_doc, field_mappings, field)} :
     \E webdriver_error \in BOOLEAN :
     \E out \in {_fill_field(data, field, element, webdriver_error)} :
       /\ field_data' = data
       /\ filled' = out.ret
       /\ value' = out.value
       /\ selected' = out.selected
       /\ raised' = out.exc
       /\ warned' = out.warned
       /\ field_mappings' =
            IF data.none THEN field_mappings
            ELSE [field_mappings EXCEPT ![1] = <<field_mappings[1][1], data.val>>]
  /\ pc' = IF pc = "fill" THEN "done" ELSE "again"
  /\ UNCHANGED << master_doc, element, field >>
  /\ UNCHANGED outside_filler

\* _fill_field(field), with the call of _determine_field_data it starts with.
\* fill_forms fills one form after the other with the same filler, so the
\* same field of a page visited again is filled again (here: once more).
FillField ==
  /\ pc \in {"fill", "done"}
  /\ \E data \in {_determine_field_data(master_doc, field_mappings, field)} :
     \E webdriver_error \in BOOLEAN :
     \E out \in {_fill_field(data, field, element, webdriver_error)} :
       /\ field_data' = data
       /\ filled' = out.ret
       /\ value' = out.value
       /\ selected' = out.selected
       /\ raised' = out.exc
       /\ warned' = out.warned
  /\ pc' = IF pc = "fill" THEN "done" ELSE "again"
  /\ UNCHANGED << master_doc, field_mappings, element, field >>
  /\ UNCHANGED outside_filler

Next == ExtractFormField \/ FillField

Spec == Init /\ [][Next]_vars

TypeOK ==
  /\ pc \in {"extract", "fill", "done", "again"}
  /\ filled \in BOOLEAN
  /\ raised \in BOOLEAN
  /\ warned \in BOOLEAN
  /\ selected \in 0..Len(element.options)

(***************************************************************************)
(* Vocabulary of the properties, stated on the tables and the label and    *)
(* not through the lookup operators above.                                 *)
(***************************************************************************)
Done == pc \in {"done", "again"}

LabelLower == lower(field.label)

Keys == 1..Len(field_mappings)
KeyOf(i) == field_mappings[i][1]
ValueOf(i) == field_mappings[i][2]

\* the synonym key at position i of the table occurs in the text l
KeyIn(i, l) == In(KeyOf(i), l)
SomeKeyIn(l) == \E i \in Keys : KeyIn(i, l)

Categories == 1..Len(field_patterns)
\* the category at position t of the table has a pattern in the text l
CategoryIn(t, l) ==
  \E p \in 1..Len(field_patterns[t][2]) : In(field_patterns[t][2][p], l)
SomeCategoryIn(l) == \E t \in Categories : CategoryIn(t, l)

CategoryValue(t) == GetItem(field_mappings, field_patterns[t][1])

\* neither a synonym key nor a category pattern occurs in the text l
NoLabelMatch(l) == ~SomeKeyIn(l) /\ ~SomeCategoryIn(l)

Typed == {"email", "tel", "url"}

\* the option text o accepts the value v (both lowercased)
Accepts(o, v) == In(v, o) \/ In(o, v)

NotFilled == ~filled /\ value = None /\ selected = 0

(***************************************************************************)
(* C1.  When two or more synonym keys of different lengths occur in the    *)
(* label, the result is the value of the longest key that occurs in it.    *)
(* The lookup returns at the first key in table order instead: the label   *)
(* "stage experience" gives the stage ("stage", 5 letters, comes first)    *)
(* and not the founder background ("experience", 10 letters).              *)
(***************************************************************************)
C1_LongestKeyWins ==
  LET l == LabelLower
      M == { i \in Keys : KeyIn(i, l) }
  IN (Done /\ \E i, j \in M : Len(KeyOf(i)) # Len(KeyOf(j)))
       => \E i \in M :
            /\ \A j \in M : Len(KeyOf(j)) <= Len(KeyOf(i))
            /\ field_data = Some(ValueOf(i))

(***************************************************************************)
(* C2.  As claimed: for every synonym key that occurs in the label, the    *)
(* result is the value of that key.  This fails when the label contains    *)
(* keys of different attributes ("Email stage").                           *)
(***************************************************************************)
C2_EveryKeyValue ==
  LET l == LabelLower
  IN Done => \A i \in Keys : KeyIn(i, l) => field_data = Some(ValueOf(i))

(***************************************************************************)
(* C2, amended.  When a synonym key occurs in the label, whatever text     *)
(* surrounds it, the result is the value of a synonym key that occurs in   *)
(* the label; so it is that key's value whenever all the keys in the       *)
(* label map to one value.                                                 *)
(***************************************************************************)
C2_SomeKeyValue ==
  LET l == LabelLower
  IN (Done /\ SomeKeyIn(l))
       => \E i \in Keys : field_data = Some(ValueOf(i)) /\ KeyIn(i, l)

\* a key inside a longer label resolved to the key's value
C2_Witness ==
  LET l == LabelLower
  IN /\ Done
     /\ field.label = "Product stage"
     /\ \A i \in Keys : KeyIn(i, l) <=> KeyOf(i) = "stage"
     /\ field_data = Some(master_doc.company.stage)

(***************************************************************************)
(* C3.  The priority chain: a synonym key in the label decides the result  *)
(* (a value of a key in the label), whatever a pattern or the kind would   *)
(* give; otherwise a category pattern in the label decides it (the value   *)
(* of a category with a pattern in the label), whatever the kind; the      *)
(* fallback on the kind (founder email, founder phone, website, or None)   *)
(* is the result only when the label has neither.                          *)
(***************************************************************************)
C3_PriorityChain ==
  LET l == LabelLower
  IN Done =>
       IF SomeKeyIn(l)
         THEN \E i \in Keys : field_data = Some(ValueOf(i)) /\ KeyIn(i, l)
       ELSE IF SomeCategoryIn(l)
         THEN \E t \in Categories :
                field_data = Some(CategoryValue(t)) /\ CategoryIn(t, l)
       ELSE field_data \in { None, Some(master_doc.founder.email),
                             Some(master_doc.founder.phone),
                             Some(master_doc.company.website) }

\* an email field labelled "contact": the pattern (founder name) wins over
\* the kind (founder email)
C3_Witness ==
  LET l == LabelLower
  IN /\ Done
     /\ field.field_type = "email"
     /\ field.label = "contact"
     /\ ~SomeKeyIn(l) /\ SomeCategoryIn(l)
     /\ field_data = Some(master_doc.founder.name)
     /\ field_data # Some(master_doc.founder.email)

(***************************************************************************)
(* C4.  When no synonym key occurs in the label, the result is the value   *)
(* of the earliest-declared category that has a pattern in the label; a    *)
(* label whose only pattern is "contact" (founder_name, email, phone)      *)
(* gives the founder name.                                                 *)
(***************************************************************************)
C4_FirstCategory ==
  LET l == LabelLower
  IN (Done /\ ~SomeKeyIn(l) /\ SomeCategoryIn(l))
       => /\ \E t \in Categories :
               /\ CategoryIn(t, l)
               /\ \A u \in 1..(t - 1) : ~CategoryIn(u, l)
               /\ field_data = Some(CategoryValue(t))
          /\ l = "contact" => field_data = Some(master_doc.founder.name)

\* "contact" matched three categories and gave the first one
C4_Witness ==
  LET l == LabelLower
  IN /\ Done
     /\ l = "contact"
     /\ field.field_type = "tel"
     /\ Cardinality({ t \in Categories : CategoryIn(t, l) }) = 3
     /\ field_data = Some(master_doc.founder.name)

(***************************************************************************)
(* C5.  The label "Email Address" on a text field and the empty label on   *)
(* an email field both give the founder email.                             *)
(***************************************************************************)
C5_EmailPathsConverge ==
  Done =>
    /\ (field.label = "Email Address" /\ field.field_type = "text")
         => field_data = Some(master_doc.founder.email)
    /\ (field.label = "" /\ field.field_type = "email")
         => field_data = Some(master_doc.founder.email)

\* the empty label on an email field gave the founder email
C5_Witness ==
  /\ Done
  /\ field.label = ""
  /\ field.field_type = "email"
  /\ field_data = Some(master_doc.founder.email)
  /\ value \in {None, Some(master_doc.founder.email)}

(***************************************************************************)
(* C6.  As claimed: when the label has no synonym key and no category      *)
(* pattern, the result depends on the kind alone: email gives the founder  *)
(* email, tel the founder phone, url the company website.  A url field     *)
(* labelled "Tel" gets the founder phone.                                  *)
(***************************************************************************)
C6_KindAlone ==
  LET l == LabelLower
  IN (Done /\ field.field_type \in Typed /\ NoLabelMatch(l)) =>
       field_data =
         CASE field.field_type = "email" -> Some(master_doc.founder.email)
           [] field.field_type = "tel" -> Some(master_doc.founder.phone)
           [] field.field_type = "url" -> Some(master_doc.company.website)

(***************************************************************************)
(* C6, amended.  When the label has no synonym key and no category         *)
(* pattern: kind email gives the founder email, kind tel the founder       *)
(* phone, and kind url the company website unless the label contains       *)
(* "tel", when it gives the founder phone.                                 *)
(***************************************************************************)
C6_KindFallback ==
  LET l == LabelLower
  IN (Done /\ field.field_type \in Typed /\ NoLabelMatch(l)) =>
       field_data =
         CASE field.field_type = "email" -> Some(master_doc.founder.email)
           [] field.field_type = "tel" -> Some(master_doc.founder.phone)
           [] field.field_type = "url" ->
                IF In("tel", l) THEN Some(master_doc.founder.phone)
                ELSE Some(master_doc.company.website)

\* a url field whose label says nothing got the website
C6_Witness ==
  /\ Done
  /\ NoLabelMatch(LabelLower)
  /\ field.label = "Product"
  /\ field.field_type = "url"
  /\ field_data = Some(master_doc.company.website)

(***************************************************************************)
(* C7.  As claimed: a field whose kind is not email, tel or url and whose  *)
(* label has no synonym key and no category pattern resolves to None and   *)
(* is left unfilled.  A text field labelled "Tel" gets the founder phone.  *)
(***************************************************************************)
C7_NoMatchIsNone ==
  LET l == LabelLower
  IN (Done /\ field.field_type \notin Typed /\ NoLabelMatch(l))
       => field_data = None /\ NotFilled

(***************************************************************************)
(* C7, amended.  A field whose kind is not email, tel or url and whose     *)
(* label has no synonym key, no category pattern and not the letters       *)
(* "tel" (the empty label included) resolves to None and is left           *)
(* unfilled; with "tel" in such a label the result is the founder phone.   *)
(***************************************************************************)
C7_NoMatchNoTelIsNone ==
  LET l == LabelLower
  IN (Done /\ field.field_type \notin Typed /\ NoLabelMatch(l))
       => IF In("tel", l)
            THEN field_data = Some(master_doc.founder.phone)
            ELSE field_data = None /\ NotFilled

\* a textarea with the empty label was left alone
C7_Witness ==
  /\ Done
  /\ field.label = ""
  /\ field.field_type = "textarea"
  /\ field_data = None
  /\ NotFilled

(***************************************************************************)
(* C8.  An email, tel or url element with no label, no placeholder and no  *)
(* name gets the founder email, the founder phone or the company website.  *)
(* Its label becomes "Unknown Field", in which the pattern "field" of the  *)
(* category industry occurs, so it gets the industry.                      *)
(***************************************************************************)
C8_UnlabelledTypedField ==
  (Done /\ field.field_type \in Typed /\ element.label_text.none
        /\ element.placeholder.none /\ element.name.none)
    => field_data =
         CASE field.field_type = "email" -> Some(master_doc.founder.email)
           [] field.field_type = "tel" -> Some(master_doc.founder.phone)
           [] field.field_type = "url" -> Some(master_doc.company.website)

(***************************************************************************)
(* C9.  In a select, the option selected is the lowest-index option that   *)
(* accepts the value (either lowercased text contains the other); with     *)
(* the options "Early Stage", "Growth Stage" and the value                 *)
(* "Early Stage / MVP" it is "Early Stage", never "Growth Stage".          *)
(***************************************************************************)
C9_FirstAcceptingOption ==
  LET v == lower(field_data.val)
      accepting == { j \in 1..Len(element.options) :
                       Accepts(lower(element.options[j]), v) }
  IN (Done /\ field.field_type = "select" /\ ~field_data.none) =>
       /\ filled <=> selected # 0
       /\ selected # 0 =>
            /\ selected \in accepting
            /\ \A j \in accepting : selected <= j
       /\ (~warned /\ v # "" /\ accepting # {}) => selected # 0
       /\ (element.options = <<"Early Stage", "Growth Stage">>
             /\ field_data = Some("Early Stage / MVP"))
            => selected = IF warned THEN 0 ELSE 1

\* the example of the claim
C9_Witness ==
  /\ Done
  /\ field.field_type = "select"
  /\ element.options = <<"Early Stage", "Growth Stage">>
  /\ field_data = Some("Early Stage / MVP")
  /\ selected = 1
  /\ filled /\ ~warned

(***************************************************************************)
(* C10.  A select with no options is never filled, whatever its label:     *)
(* nothing is selected, _fill_field returns False and no exception leaves  *)
(* it.                                                                     *)
(***************************************************************************)
C10_EmptyOptionsNoMatch ==
  (Done /\ field.field_type = "select" /\ element.options = <<>>)
    => NotFilled /\ ~raised

\* a select labelled "stage" (a value was found) with no options
C10_Witness ==
  /\ Done
  /\ field.field_type = "select"
  /\ element.options = <<>>
  /\ field.label = "stage"
  /\ ~field_data.none
  /\ NotFilled /\ ~raised

(***************************************************************************)
(* C11.  For a select, the outcome "a value was found but no option        *)
(* accepts it" is reported to the caller of _fill_field differently from   *)
(* the outcome "no value was found for the label".  What the caller gets   *)
(* is the return value, the exception (if any) and the warning logged.     *)
(* _fill_field returns False in both cases and logs nothing in either.     *)
(***************************************************************************)
C11_NoOptionReportedApart ==
  LET nomatch == _fill_field(None, field, element, FALSE)
  IN (Done /\ field.field_type = "select"
        /\ ~field_data.none /\ field_data.val # ""
        /\ selected = 0 /\ ~warned)
       => << filled, raised, warned >>
            # << nomatch.ret, nomatch.exc, nomatch.warned >>

(***************************************************************************)
(* C14.  Resolving changes neither the master document nor the table of    *)
(* synonym keys (no key added, removed or mapped to another value), and a  *)
(* field resolved again gets the result it got before.  The table of       *)
(* category patterns is assigned in __init__ only and is the definition    *)
(* field_patterns.                                                         *)
(***************************************************************************)
C14_ResolveIsPure ==
  [][ /\ master_doc' = master_doc
      /\ field_mappings' = field_mappings
      /\ Len(field_mappings') = Len(_create_field_mappings(master_doc))
      /\ (Done /\ Done') =>
           /\ field' = field
           /\ field_data' = field_data ]_vars

\* a field labelled "Email Address" resolved a second time, to the same value
C14_Witness ==
  /\ pc = "again"
  /\ field.label = "Email Address"
  /\ field_data = Some(master_doc.founder.email)
  /\ field_mappings = _create_field_mappings(master_doc)

(***************************************************************************)
(* C12.  Two labels that differ only in letter case, in punctuation other  *)
(* than a hyphen or underscore inside a word, or in the amount of          *)
(* whitespace resolve to the same result for every kind.  A label and its  *)
(* normal form (lowercased, that punctuation removed, whitespace           *)
(* collapsed) are two such labels.  _determine_field_data lowercases the   *)
(* label and does nothing else to it: "U.R.L" on a text field resolves to  *)
(* nothing, "url" resolves to the website.                                 *)
(***************************************************************************)
PunctuationChars == {".", ",", ":", ";", "*", "?", "!", "/", "(", ")", "#"}

IsWordChar(c) == c \notin PunctuationChars \cup {" ", "-", "_"}

\* s without its punctuation; position i of s is being read and prev is the
\* character kept last ("" at the start)
RECURSIVE StripPunctuationFrom(_, _, _)
StripPunctuationFrom(s, i, prev) ==
  IF i > Len(s) THEN ""
  ELSE LET c == CharAt(s, i)
           inner == /\ prev # "" /\ IsWordChar(prev)
                    /\ i < Len(s) /\ IsWordChar(CharAt(s, i + 1))
           keep == \/ IsWordChar(c) \/ c = " "
                   \/ (c \in {"-", "_"} /\ inner)
       IN IF keep THEN c \o StripPunctuationFrom(s, i + 1, c)
          ELSE StripPunctuationFrom(s, i + 1, prev)

\* s with every run of blanks made one blank, and none at either end
RECURSIVE CollapseFrom(_, _, _)
CollapseFrom(s, i, pending) ==
  IF i > Len(s) THEN ""
  ELSE LET c == CharAt(s, i)
       IN IF c = " " THEN CollapseFrom(s, i + 1, TRUE)
          ELSE (IF pending THEN " " ELSE "") \o c \o CollapseFrom(s, i + 1, FALSE)

NormalForm(label) ==
  LET t == StripPunctuationFrom(lower(label), 1, "")
      u == strip(t)
  IN IF u = "" THEN "" ELSE CharAt(u, 1) \o CollapseFrom(u, 2, FALSE)

C12_NormalFormSameResult ==
  Done =>
    field_data = DetermineFromLabel(master_doc, field_mappings,
                                    field.field_type, NormalForm(field.label))

(***************************************************************************)
(* The ranking, step by step.  Callers run                                 *)
(* filter_opportunities_by_relevance concurrently on the shared dicts; a   *)
(* step is one iteration of the loop, one call of the key function by      *)
(* sorted(), or the sort itself.  An iteration reads only the focus of the *)
(* opportunity, which nothing writes, before it writes the score.          *)
(***************************************************************************)
\* the form filler is not running
FillerOff ==
  /\ master_doc = DefaultMasterDocument
  /\ field_mappings = <<>>
  /\ element = Element("text", "none", "", <<>>)
  /\ field = NoField
  /\ field_data = None
  /\ filled = FALSE
  /\ value = None
  /\ selected = 0
  /\ raised = FALSE
  /\ warned = FALSE
  /\ pc = "off"

\* GrantApplicationBot.__init__ of every caller: self.opportunities = TOP_OPPS
RankInit ==
  /\ TOP_OPPS \in OpportunityLists(MaxOpps)
  /\ NoCalls
  /\ FillerOff
  /\ BotOff
  /\ FormsOff
  /\ AppsOff

\* self.opportunities, as positions in TOP_OPPS
opportunities == [ k \in 1..Len(TOP_OPPS) |-> k ]

\* a caller calls filter_opportunities_by_relevance, on self.opportunities
\* or on the list it was returned by its last call
CallFilter(t) ==
  /\ rank_pc[t] \in {"idle", "returned"}
  /\ \E a \in {"opportunities", "ranked"} :
       /\ a = "ranked" => rank_pc[t] = "returned"
       /\ arg' = [arg EXCEPT ![t] = a]
       /\ opps' = [opps EXCEPT ![t] =
                     IF a = "ranked" THEN returned[t] ELSE opportunities]
       /\ rank_pc' = [rank_pc EXCEPT ![t] =
                     IF (IF a = "ranked" THEN returned[t] ELSE opportunities) = <<>>
                       THEN "sort" ELSE "loop"]
  /\ enriched' = [enriched EXCEPT ![t] = <<>>]
  /\ sort_keys' = [sort_keys EXCEPT ![t] = <<>>]
  /\ returned' = [returned EXCEPT ![t] = <<>>]
  /\ UNCHANGED << TOP_OPPS, outside_ranker >>

\* one iteration of `for opp in opps`
ScoreOpp(t) ==
  /\ rank_pc[t] = "loop"
  /\ LET opp == opps[t][Len(enriched[t]) + 1]
     IN /\ TOP_OPPS' = [TOP_OPPS EXCEPT ![opp].relevance_score =
                          Some(relevance_score(TOP_OPPS[opp]))]
        /\ enriched' = [enriched EXCEPT ![t] = Append(enriched[t], opp)]
  /\ rank_pc' = [rank_pc EXCEPT ![t] =
                   IF Len(enriched[t]) + 1 = Len(opps[t]) THEN "sort" ELSE "loop"]
  /\ UNCHANGED << arg, opps, sort_keys, returned, outside_ranker >>

\* sorted() calls the key function on the next item: x["relevance_score"]
ReadKey(t) ==
  /\ rank_pc[t] = "sort"
  /\ Len(sort_keys[t]) < Len(enriched[t])
  /\ LET x == enriched[t][Len(sort_keys[t]) + 1]
     IN sort_keys' = [sort_keys EXCEPT ![t] =
                        Append(sort_keys[t], TOP_OPPS[x].relevance_score.val)]
  /\ UNCHANGED << TOP_OPPS, rank_pc, arg, opps, enriched, returned, outside_ranker >>

\* sorted() orders the items by the keys it has computed; the list is returned
SortAndReturn(t) ==
  /\ rank_pc[t] = "sort"
  /\ Len(sort_keys[t]) = Len(enriched[t])
  /\ returned' = [returned EXCEPT ![t] = sorted_reverse(enriched[t], sort_keys[t])]
  /\ rank_pc' = [rank_pc EXCEPT ![t] = "returned"]
  /\ UNCHANGED << TOP_OPPS, arg, opps, enriched, sort_keys, outside_ranker >>

RankNext ==
  \E t \in Callers :
    \/ CallFilter(t)
    \/ ScoreOpp(t)
    \/ ReadKey(t)
    \/ SortAndReturn(t)

SpecRank == RankInit /\ [][RankNext]_vars

(***************************************************************************)
(* Vocabulary of the ranking properties.                                   *)
(***************************************************************************)
Returned(t) == rank_pc[t] = "returned"

\* the tags of an opportunity
Tags(o) ==
  IF o.focus.none THEN {} ELSE { o.focus.val[j] : j \in 1..Len(o.focus.val) }

\* the keywords equal to a tag of the opportunity, letter case apart
KeywordsHit(o) == { kw \in keywords : \E tag \in Tags(o) : lower(tag) = lower(kw) }

\* the score the formula gives to each opportunity of the pool
ExpectedScores ==
  [ o \in OpportunityPool |->
      IF 2 + 2 * Cardinality(KeywordsHit(o)) > 10 THEN 10
      ELSE 2 + 2 * Cardinality(KeywordsHit(o)) ]

\* the opportunity at position k of TOP_OPPS as it was before any ranking
Unscored(k) == [TOP_OPPS[k] EXCEPT !.relevance_score = NoScore]

TagsOf(k) == Tags(TOP_OPPS[k])

ExpectedScore(k) == ExpectedScores[Unscored(k)]

ScoreOf(k) == TOP_OPPS[k].relevance_score

\* the position of the opportunity k in the list s
PositionIn(s, k) == CHOOSE j \in 1..Len(s) : s[j] = k

(***************************************************************************)
(* C15.  After a ranking every opportunity of the list has the score       *)
(* min(10, 2 + 2 * overlap), overlap being the number of keywords equal to *)
(* one of its tags whatever the letter case (a keyword counted once); an   *)
(* opportunity with no tags scores 2, the tags Climate, Technology, Africa *)
(* score 6.                                                                *)
(***************************************************************************)
C15_ScoreFormula ==
  \A t \in Callers :
    Returned(t) =>
      \A j \in 1..Len(returned[t]) :
        LET k == returned[t][j]
        IN /\ ScoreOf(k) = Some(ExpectedScore(k))
           /\ TagsOf(k) = {} => ScoreOf(k).val = 2
           /\ TagsOf(k) = {"Climate", "Technology", "Africa"} => ScoreOf(k).val = 6

\* a ranked list with an untagged opportunity (2), the example (6) and one
\* with six keywords, one of them twice (10)
C15_Witness ==
  \E t \in Callers :
    /\ Returned(t)
    /\ Len(returned[t]) = 3
    /\ \E a, b, c \in 1..3 :
         /\ returned[t] = << a, b, c >>
         /\ ScoreOf(a).val = 10 /\ Cardinality(KeywordsHit(TOP_OPPS[a])) = 6
         /\ ScoreOf(b).val = 6
         /\ ScoreOf(c).val = 2 /\ TagsOf(c) = {}

(***************************************************************************)
(* C16.  The list returned is in non-increasing order of score, and two    *)
(* opportunities of equal score are in the order they had in the argument. *)
(***************************************************************************)
C16_SortedAndStable ==
  \A t \in Callers :
    Returned(t) =>
      \A i, j \in 1..Len(returned[t]) :
        i < j =>
          LET x == returned[t][i]
              y == returned[t][j]
          IN /\ ScoreOf(x).val >= ScoreOf(y).val
             /\ ScoreOf(x).val = ScoreOf(y).val
                  => PositionIn(opps[t], x) < PositionIn(opps[t], y)

\* two opportunities of score 2 around one of score 6: the 6 moves to the
\* front, the two others keep their order
C16_Witness ==
  \E t \in Callers :
    /\ Returned(t)
    /\ opps[t] = << 1, 2, 3 >>
    /\ returned[t] = << 2, 1, 3 >>
    /\ ScoreOf(1).val = 2 /\ ScoreOf(2).val = 6 /\ ScoreOf(3).val = 2

(***************************************************************************)
(* C17.  Ranking a list that a ranking returned gives the same order, and  *)
(* leaves every score as it was.                                           *)
(***************************************************************************)
C17_RankIdempotent ==
  [][ \A t \in Callers :
        /\ (arg[t] = "ranked" /\ ~Returned(t) /\ Returned(t)')
             => returned'[t] = opps[t]
        /\ arg[t] = "ranked"
             => \A k \in 1..Len(TOP_OPPS) :
                  ~ScoreOf(k).none => ScoreOf(k)' = ScoreOf(k) ]_vars

\* a list that was reordered by the first ranking, ranked again
C17_Witness ==
  \E t \in Callers :
    /\ Returned(t)
    /\ arg[t] = "ranked"
    /\ opps[t] = << 2, 1, 3 >>
    /\ returned[t] = << 2, 1, 3 >>
    /\ ScoreOf(1).val = ScoreOf(3).val

(***************************************************************************)
(* C18.  The list returned holds the opportunities of the argument, each   *)
(* once; the list passed keeps its order; nothing but relevance_score      *)
(* changes in an opportunity.                                              *)
(***************************************************************************)
C18_RankFrame ==
  [][ /\ Len(TOP_OPPS') = Len(TOP_OPPS)
      /\ \A k \in 1..Len(TOP_OPPS) :
           [TOP_OPPS'[k] EXCEPT !.relevance_score = ScoreOf(k)] = TOP_OPPS[k]
      /\ \A t \in Callers :
           /\ rank_pc[t] \in {"loop", "sort"} => opps'[t] = opps[t]
           /\ (~Returned(t) /\ Returned(t)') =>
                /\ Len(returned'[t]) = Len(opps[t])
                /\ \A j \in 1..Len(opps[t]) :
                     Cardinality({ i \in 1..Len(returned'[t]) :
                                     returned'[t][i] = opps[t][j] }) = 1 ]_vars

\* a ranking of three opportunities that changed their order; they keep
\* their names, types and tags
C18_Witness ==
  \E t \in Callers :
    /\ Returned(t)
    /\ opps[t] = << 1, 2, 3 >>
    /\ returned[t] = << 3, 2, 1 >>
    /\ \A k \in 1..3 : Unscored(k) \in OpportunityPool

(***************************************************************************)
(* C19.  Under every interleaving of the callers on the shared             *)
(* opportunities, sorted() finds a score on every opportunity and reads    *)
(* the score of the formula, every list returned is in non-increasing      *)
(* order of the scores the opportunities have, and every opportunity that  *)
(* has a score has the score of the formula.                               *)
(***************************************************************************)
C19_ConcurrentRankingSafe ==
  /\ \A k \in 1..Len(TOP_OPPS) :
       ~ScoreOf(k).none => ScoreOf(k).val = ExpectedScore(k)
  /\ \A t \in Callers :
       /\ rank_pc[t] = "sort" =>
            \A j \in 1..Len(enriched[t]) :
              /\ ~ScoreOf(enriched[t][j]).none
              /\ j <= Len(sort_keys[t])
                   => sort_keys[t][j] = ExpectedScore(enriched[t][j])
       /\ Returned(t) =>
            /\ returned[t] = sorted_reverse(opps[t],
                               [j \in 1..Len(opps[t]) |-> ExpectedScore(opps[t][j])])
            /\ \A i, j \in 1..Len(returned[t]) :
                 i < j => ScoreOf(returned[t][i]).val >= ScoreOf(returned[t][j]).val

\* one caller is reading its sort keys while the other is still in its loop
\* on the same opportunities
C19_Witness ==
  /\ Len(TOP_OPPS) = 3
  /\ rank_pc["c1"] = "sort" /\ Len(sort_keys["c1"]) = 2
  /\ rank_pc["c2"] = "loop" /\ Len(enriched["c2"]) = 1
  /\ arg["c2"] = "ranked" /\ opps["c2"] # opps["c1"]

(***************************************************************************)
(* The bot, step by step: the master document is loaded from the sidebar   *)
(* of main(), and apply_to_opportunity resolves the label of every input   *)
(* of a page with fill_form_field.                                         *)
(***************************************************************************)
\* no ranking is running
RankerOff ==
  /\ TOP_OPPS = <<>>
  /\ NoCalls

outside_bot == << filler_vars, ranker_vars, forms_vars, apps_vars >>

\* the name attributes of the inputs of the pages: the short texts, and
\* the names of two keys of the mapping
NameAttributes == Texts(MaxAttrWords) \cup {"use_of_funds", "pitch_deck"}

\* the labels fill_form_field is called with
BotLabels == Texts(MaxWords) \cup NameAttributes

\* GrantApplicationBot.__init__, and the input found on the page
BotInit ==
  /\ master_data = JNone
  /\ bot_label \in BotLabels
  /\ bot_value = JNone
  /\ bot_raised = FALSE
  /\ NotApplied
  /\ bot_pc = "ready"
  /\ FillerOff
  /\ RankerOff
  /\ FormsOff
  /\ AppsOff

\* load_master_data(json_data=...): json.loads raises on text that is not
\* JSON, the except block returns None and master_data stays as it is
LoadMasterData ==
  /\ bot_pc # "off"
  /\ \E json \in JsonInputs :
       master_data' = IF json = JNone THEN master_data ELSE json
  /\ bot_pc' = "ready"
  /\ bot_value' = JNone
  /\ bot_raised' = FALSE
  /\ ClearApplied
  /\ UNCHANGED << bot_label, outside_bot >>

\* fill_form_field(label) as apply_to_opportunity calls it on the
\* placeholder or name of an input; main() returns before it when
\* master_data is falsy
FillFormField ==
  /\ Truthy(master_data)
  /\ \E best \in extractOne(remove_punctuation(lower(bot_label)), create_field_mappings) :
     \E out \in {fill_form_field(master_data, create_field_mappings, bot_label, best)} :
       /\ bot_value' = out.val
       /\ bot_raised' = out.raises
  /\ bot_pc' = "resolved"
  /\ ClearApplied
  /\ UNCHANGED << master_data, bot_label, outside_bot >>

\* apply_to_opportunity(opp, dry_run) as main() calls it, once the
\* master data is loaded, when "Run Applications" is pressed, dry_run being
\* the "Dry-run mode" checkbox; the input of the page has its label in its
\* name attribute
ApplyToOpportunity ==
  /\ bot_pc = "ready"
  /\ Truthy(master_data)
  /\ bot_label \in NameAttributes
  /\ \E best \in extractOne(remove_punctuation(lower(bot_label)), create_field_mappings) :
     \E dry_run \in BOOLEAN, visit \in BotVisits, type \in InputTypesOfBot :
     \E enabled \in BOOLEAN, deck_exists \in BOOLEAN, button \in SubmitButtons :
     \E out \in {apply_to_opportunity(master_data, create_field_mappings,
                                      bot_label, best, dry_run, visit, type,
                                      enabled, deck_exists, button)} :
       /\ bot_dry_run' = dry_run
       /\ bot_status' = out.status
       /\ bot_raised' = out.raises
       /\ bot_value' = out.val
       /\ bot_typed' = out.typed
       /\ bot_clicked' = out.clicked
       /\ bot_uploaded' = out.uploaded
       /\ bot_driver' = out.driver
  /\ bot_pc' = "applied"
  /\ UNCHANGED << master_data, bot_label, outside_bot >>

BotNext == LoadMasterData \/ FillFormField \/ ApplyToOpportunity

SpecBot == BotInit /\ [][BotNext]_vars

(***************************************************************************)
(* C13.  Resolving a field never lets an exception out to its caller: it   *)
(* returns a value or None.  _fill_field catches whatever the filling      *)
(* raises, but fill_form_field lets the AttributeError of get_value out    *)
(* when a section of the master document is not a dict: with the founder   *)
(* given as a plain string, the label "Email" raises.                      *)
(***************************************************************************)
C13_ResolveNeverRaises ==
  LET query == strip(remove_punctuation(lower(bot_label)))
      scores100 == \E i \in 1..Len(create_field_mappings) :
                     FullScore(query, create_field_mappings[i][1])
  IN (bot_pc = "resolved" /\ scores100) => ~bot_raised

(***************************************************************************)
(* fill_forms, step by step.                                               *)
(***************************************************************************)
Urls == {"", "https://example.com/grant-form"}

\* the lists of at most n urls
RECURSIVE UrlLists(_)
UrlLists(n) ==
  IF n = 0 THEN {<<>>}
  ELSE UrlLists(n - 1) \cup
       { Append(us, u) : us \in UrlLists(n - 1), u \in Urls }

outside_forms == << filler_vars, ranker_vars, bot_vars, apps_vars >>

\* the call fill_forms(opportunities, submit)
FormsInit ==
  /\ config_file \in ConfigFiles
  /\ loaded = NoDocument
  /\ load_raised = FALSE
  /\ form_filler = NoFormFiller
  /\ submit \in BOOLEAN
  /\ todo \in UrlLists(MaxForms)
  /\ results = <<>>
  /\ forms_pc = "start"
  /\ FillerOff
  /\ RankerOff
  /\ BotOff
  /\ AppsOff

\* master_doc = load_master_document()
LoadMasterDocument ==
  /\ forms_pc = "start"
  /\ \E out \in {load_master_document(config_file)} :
       /\ config_file' = out.file
       /\ load_raised' = out.raises
       /\ loaded' = IF out.raises THEN NoDocument ELSE Some(out.doc)
       /\ forms_pc' = IF out.raises THEN "aborted" ELSE "loaded"
  /\ UNCHANGED << form_filler, submit, todo, results, outside_forms >>

\* form_filler = IntelligentFormFiller(master_doc, headless=True)
NewFormFiller ==
  /\ forms_pc = "loaded"
  /\ form_filler' = IntelligentFormFiller(loaded.val)
  /\ forms_pc' = "filling"
  /\ UNCHANGED << config_file, loaded, load_raised, submit, todo, results,
                  outside_forms >>

\* one iteration of `for opportunity in opportunities`
FillForm ==
  /\ forms_pc = "filling"
  /\ todo # <<>>
  /\ todo' = Tail(todo)
  /\ IF Head(todo) = ""
       THEN UNCHANGED << form_filler, results >>              \* continue
     ELSE \E visit \in Visits, page \in Pages :
          \E webdriver_error \in BOOLEAN, submit_error \in BOOLEAN :
          \E out \in {fill_form(form_filler, Head(todo), submit, visit, page,
                                webdriver_error, submit_error)} :
            /\ results' = Append(results, out.result)
            /\ form_filler' = [form_filler EXCEPT !.driver = out.driver]
  /\ UNCHANGED << config_file, loaded, load_raised, submit, forms_pc,
                  outside_forms >>

\* finally: form_filler.close_driver(); return results
CloseDriver ==
  /\ forms_pc = "filling"
  /\ todo = <<>>
  /\ form_filler' = [form_filler EXCEPT !.driver = close_driver(form_filler.driver)]
  /\ forms_pc' = "returned"
  /\ UNCHANGED << config_file, loaded, load_raised, submit, todo, results,
                  outside_forms >>

FormsNext == LoadMasterDocument \/ NewFormFiller \/ FillForm \/ CloseDriver

SpecForms == FormsInit /\ [][FormsNext]_vars

(***************************************************************************)
(* C20.  When the data of the master document is invalid, building the     *)
(* profile raises to the caller and no form filler is made from it.        *)
(* load_master_document catches the error of json.load and of the          *)
(* validation, prints it and returns the default MasterDocument, from      *)
(* which fill_forms builds its form filler.                                *)
(***************************************************************************)
C20_InvalidProfileAborts ==
  (forms_pc # "start" /\ config_file \in {"not_json", "wrong_type"})
    => /\ load_raised
       /\ loaded = NoDocument
       /\ ~form_filler.built

(***************************************************************************)
(* C30.  When the value to enter is a non-empty string, the option that    *)
(* _fill_select_field selects never has an empty text (such as the blank   *)
(* placeholder entry of a dropdown).                                       *)
(***************************************************************************)
C30_EmptyOptionNeverSelected ==
  (Done /\ field.field_type = "select"
     /\ ~field_data.none /\ field_data.val # "" /\ selected # 0)
    => element.options[selected] # ""

(***************************************************************************)
(* C23.  A label that contains the generic word "name", no synonym key    *)
(* and no pattern of a category declared before founder_name resolves to   *)
(* the founder name through the category patterns; "Product Name" is such  *)
(* a label.                                                                *)
(***************************************************************************)
C23_GenericNameIsFounder ==
  LET founder_name == CHOOSE t \in Categories :
                        field_patterns[t][1] = "founder_name"
  IN (Done /\ In("name", LabelLower) /\ ~SomeKeyIn(LabelLower)
        /\ \A u \in 1..(founder_name - 1) : ~CategoryIn(u, LabelLower))
       => field_data = Some(master_doc.founder.name)

\* the example of the claim
C23_Witness ==
  /\ Done
  /\ field.label = "Product Name"
  /\ ~SomeKeyIn(LabelLower)
  /\ field_data = Some(master_doc.founder.name)

(***************************************************************************)
(* C24.  When the label contains two synonym keys of the same length that  *)
(* map to different values, the field resolves to the value of the one     *)
(* that comes first in the table (the first of that length the label       *)
(* contains), and it does so again when the field is resolved again.       *)
(***************************************************************************)
C24_EqualLengthFirstInTable ==
  LET l == LabelLower
      hit == { i \in Keys : KeyIn(i, l) }
  IN Done =>
       \A i, j \in hit :
         (/\ i < j
          /\ Len(KeyOf(i)) = Len(KeyOf(j))
          /\ ValueOf(i) # ValueOf(j)
          /\ \A k \in hit : k < i => Len(KeyOf(k)) # Len(KeyOf(i)))
           => field_data = Some(ValueOf(i))

\* "stage Email" contains the keys "email" and "stage", both of five
\* characters: the founder email is what the field gets, on the second
\* resolution as on the first
C24_Witness ==
  /\ pc = "again"
  /\ field.label = "stage Email"
  /\ \E i, j \in Keys :
       /\ i < j
       /\ KeyOf(i) = "email" /\ KeyOf(j) = "stage"
       /\ ValueOf(i) # ValueOf(j)
  /\ field_data = Some(master_doc.founder.email)

(***************************************************************************)
(* C21.  When the attribute the label matches has the empty string as its  *)
(* value in the master document, what _fill_field reports (its return      *)
(* value, an exception, a log line) differs from what it reports for a     *)
(* field no attribute matches.                                             *)
(***************************************************************************)
C21_EmptyValueToldApart ==
  LET nomatch == _fill_field(None, field, element, FALSE)
  IN (Done /\ field_data = Some(""))
       => << filled, value, raised, warned >>
            # << nomatch.ret, nomatch.value, nomatch.exc, nomatch.warned >>

(***************************************************************************)
(* C22.  When the label of an input resolves to a profile value that is a  *)
(* list of strings (use_of_funds), the text the input gets is the items of *)
(* the list, in their order, joined with "; ".                             *)
(***************************************************************************)
C22_ListJoinedWithSemicolon ==
  LET query == strip(remove_punctuation(lower(bot_label)))
  IN (bot_pc = "applied" /\ FullScore(query, "use_of_funds")
        /\ bot_value.kind = "list" /\ ~bot_typed.none)
       => bot_typed = Some(join("; ", [i \in 1..Len(bot_value.items) |->
                                         bot_value.items[i].str]))

(***************************************************************************)
(* C27.  Every result of fill_form has 0 <= fields_filled <= total_fields, *)
(* success exactly when fields_filled > 0, and submitted only when submit  *)
(* was asked for and success is true; this holds when the driver, the page *)
(* or a field raises as well.                                              *)
(***************************************************************************)
C27_ResultConsistent ==
  \A i \in 1..Len(results) :
    /\ 0 <= results[i].fields_filled
    /\ results[i].fields_filled <= results[i].total_fields
    /\ results[i].success <=> results[i].fields_filled > 0
    /\ results[i].submitted => (submit /\ results[i].success)

\* a visit that raised, then a form of two fields of which one was filled,
\* in a call that asks for the submission
C27_Witness ==
  /\ Len(results) = 2
  /\ results[1].errors # <<>> /\ ~results[1].success
  /\ results[2].fields_filled = 1 /\ results[2].total_fields = 2
  /\ results[2].success /\ submit

(***************************************************************************)
(* submit_applications(form_results, dry_run).                             *)
(***************************************************************************)
outside_subm == << filler_vars, ranker_vars, bot_vars, forms_vars, scr_vars,
                   log_vars >>

\* the call: submitter = ApplicationSubmitter(headless=True)
SubmitInit ==
  /\ subm_driver = "none"
  /\ subm_dry_run \in BOOLEAN
  /\ subm_todo \in FormResultLists(MaxForms)
  /\ subm_results = <<>>
  /\ subm_calls = <<>>
  /\ subm_pc = "submitting"
  /\ FillerOff
  /\ RankerOff
  /\ BotOff
  /\ FormsOff
  /\ ScrapeOff
  /\ LogOff

\* one iteration of `for form_result in form_results`
SubmitApplication ==
  /\ subm_pc = "submitting"
  /\ subm_todo # <<>>
  /\ \E scenario \in Scenarios :
     \E out \in {submit_application(subm_driver, Head(subm_todo),
                                    subm_dry_run, scenario)} :
       /\ subm_results' = Append(subm_results, out.result)
       /\ subm_calls' = Append(subm_calls, out.call)
       /\ subm_driver' = out.driver
  /\ subm_todo' = Tail(subm_todo)
  /\ UNCHANGED << subm_dry_run, subm_pc, outside_subm >>

\* save_submission_log, which raises nothing; finally:
\* submitter.close_driver(); return submission_results
CloseSubmitter ==
  /\ subm_pc = "submitting"
  /\ subm_todo = <<>>
  /\ subm_driver' = close_driver(subm_driver)
  /\ subm_pc' = "returned"
  /\ UNCHANGED << subm_dry_run, subm_todo, subm_results, subm_calls,
                  outside_subm >>

SubmitNext == SubmitApplication \/ CloseSubmitter

SpecSubmit == SubmitInit /\ [][SubmitNext]_vars

(***************************************************************************)
(* discover_opportunities(keywords, max_results).                          *)
(***************************************************************************)
outside_scr == << filler_vars, ranker_vars, bot_vars, forms_vars, subm_vars,
                  log_vars >>

\* the call: scraper = OpportunityScraper(headless=True), and
\* self.opportunities = [] of the method
ScrapeInit ==
  /\ scr_driver = "none"
  /\ scr_todo = <<>>
  /\ scr_found = <<>>
  /\ scr_raised = FALSE
  /\ scr_pc = "start"
  /\ FillerOff
  /\ RankerOff
  /\ BotOff
  /\ FormsOff
  /\ SubmitOff
  /\ LogOff

\* self.setup_driver() in the try block of the method
SetupDriver ==
  /\ scr_pc = "start"
  /\ \E setup \in Setups :
       /\ scr_driver' = IF setup = "chrome_fails" THEN scr_driver ELSE "open"
       /\ scr_raised' = (setup # "ok")
       /\ scr_todo' = IF setup = "ok" THEN sources ELSE <<>>
  /\ scr_pc' = "scraping"
  /\ UNCHANGED << scr_found, outside_scr >>

\* one iteration of `for source in self.sources`, with its except block
ScrapeSource ==
  /\ scr_pc = "scraping"
  /\ scr_todo # <<>>
  /\ \E scraping \in Scrapings :
       scr_found' = IF scraping = "found"
                      THEN Append(scr_found, Head(scr_todo)) ELSE scr_found
  /\ scr_todo' = Tail(scr_todo)
  /\ UNCHANGED << scr_driver, scr_raised, scr_pc, outside_scr >>

\* finally: self.close_driver() of the method
CloseScraper ==
  /\ scr_pc = "scraping"
  /\ scr_todo = <<>>
  /\ scr_driver' = close_driver(scr_driver)
  /\ scr_pc' = "closed"
  /\ UNCHANGED << scr_todo, scr_found, scr_raised, outside_scr >>

\* the function: the list is returned, or the except block returns [];
\* finally: scraper.close_driver()
ReturnOpportunities ==
  /\ scr_pc = "closed"
  /\ scr_driver' = close_driver(scr_driver)
  /\ scr_found' = IF scr_raised THEN <<>> ELSE scr_found
  /\ scr_raised' = FALSE
  /\ scr_pc' = "returned"
  /\ UNCHANGED << scr_todo, outside_scr >>

ScrapeNext == SetupDriver \/ ScrapeSource \/ CloseScraper \/ ReturnOpportunities

SpecScrape == ScrapeInit /\ [][ScrapeNext]_vars

(***************************************************************************)
(* log_activity(activity_type, data).                                      *)
(***************************************************************************)
outside_log == << filler_vars, ranker_vars, bot_vars, forms_vars, subm_vars,
                  scr_vars >>

\* GrantApplicationLogger.__init__, and the file as it is found
LogInit ==
  /\ activity_log \in ActivityFiles
  /\ logged = activity_log.activities
  /\ log_calls = 0
  /\ log_pc = "ready"
  /\ FillerOff
  /\ RankerOff
  /\ BotOff
  /\ FormsOff
  /\ SubmitOff
  /\ ScrapeOff

LogActivity ==
  /\ log_pc \in {"ready", "logged"}
  /\ log_calls < MaxLogCalls
  /\ \E type \in ActivityTypes :
     \E activity \in {Activity(Len(logged) + 1, type)} :
       /\ activity_log' = log_activity(activity_log, activity)
       /\ logged' = Append(logged, activity)
  /\ log_calls' = log_calls + 1
  /\ log_pc' = "logged"
  /\ UNCHANGED outside_log

LogNext == LogActivity

SpecLog == LogInit /\ [][LogNext]_vars

(***************************************************************************)
(* C26.  In a live run (dry_run false) a call of submit_application clicks *)
(* the submission element only if the form result reports success, a       *)
(* submission element was found and the validation found neither an empty  *)
(* required field nor a displayed validation error; when one of the three  *)
(* fails, the result has submitted = False and a non-empty errors list.    *)
(***************************************************************************)
C26_SubmissionGated ==
  ~subm_dry_run =>
    \A i \in 1..Len(subm_calls) :
      LET call == subm_calls[i]
          result == subm_results[i]
          passed == call.success /\ call.found /\ call.valid
      IN /\ call.clicked => passed
         /\ ~passed => (~result.submitted /\ result.errors # <<>>)

\* a live run that clicked for a successful form whose page passed the
\* checks, and did not click for an unsuccessful one
C26_Witness ==
  /\ ~subm_dry_run
  /\ subm_pc = "returned"
  /\ Len(subm_calls) = 2
  /\ subm_calls[1] = Call(TRUE, TRUE, TRUE, TRUE)
  /\ subm_results[1].submitted
  /\ ~subm_calls[2].success /\ ~subm_calls[2].clicked
  /\ ~subm_results[2].submitted /\ subm_results[2].errors # <<>>

(***************************************************************************)
(* C28.  After each call of log_activity the file holds a list of at most  *)
(* 1000 activities: the most recently logged ones (all of them while there *)
(* are no more than 1000), in the order they were logged, the activity     *)
(* just logged being the last.                                             *)
(***************************************************************************)
C28_ActivityLogBounded ==
  LET stored == activity_log.activities
      n == Len(stored)
  IN log_pc = "logged" =>
       /\ activity_log.state = "list"
       /\ n <= ActivityLimit
       /\ n = IF Len(logged) <= ActivityLimit THEN Len(logged) ELSE ActivityLimit
       /\ \A i \in 1..n : stored[i] = logged[Len(logged) - n + i]
       /\ n > 0 /\ stored[n] = logged[Len(logged)]

\* more than 1000 activities have been logged: the file holds the last 1000
C28_Witness ==
  /\ log_pc = "logged"
  /\ log_calls > 2
  /\ Len(logged) > ActivityLimit
  /\ Len(activity_log.activities) = ActivityLimit
  /\ activity_log.activities[1].timestamp = Len(logged) - ActivityLimit + 1
  /\ activity_log.activities[ActivityLimit].timestamp = Len(logged)

(***************************************************************************)
(* The three functions that open a browser: fill_forms,                    *)
(* submit_applications and discover_opportunities, each called on its own. *)
(***************************************************************************)
DriversInit == FormsInit \/ SubmitInit \/ ScrapeInit

DriversNext == FormsNext \/ SubmitNext \/ ScrapeNext

SpecDrivers == DriversInit /\ [][DriversNext]_vars

(***************************************************************************)
(* C29.  When fill_forms, submit_applications or discover_opportunities    *)
(* (the method and the function around it) has returned or has been left   *)
(* by an exception, the driver it opened has been quit and the driver      *)
(* reference of its component is None; close_driver on a component whose   *)
(* driver is None leaves it None.                                          *)
(***************************************************************************)
C29_DriverReleased ==
  /\ forms_pc \in {"returned", "aborted"} => form_filler.driver = "none"
  /\ subm_pc = "returned" => subm_driver = "none"
  /\ scr_pc \in {"closed", "returned"} =>
       /\ scr_driver = "none"
       /\ close_driver(scr_driver) = "none"

\* submit_applications has returned after a call that had the browser open
\* on a page
C29_Witness ==
  /\ subm_pc = "returned"
  /\ \E i \in 1..Len(subm_calls) : subm_calls[i].found
  /\ subm_driver = "none"

(***************************************************************************)
(* The entry points of a run: the dashboard, whose bot applies to an       *)
(* opportunity; main(), which fills the forms with submit=False; and       *)
(* submit_applications.                                                    *)
(***************************************************************************)
\* form_results = fill_forms(opportunities, submit=False)
MainInit == FormsInit /\ submit = FALSE

RunInit == BotInit \/ MainInit \/ SubmitInit

RunNext == BotNext \/ FormsNext \/ SubmitNext

SpecRun == RunInit /\ [][RunNext]_vars

(***************************************************************************)
(* C25.  With dry_run true nothing is submitted: apply_to_opportunity      *)
(* clicks no submit button and reports submitted False,                    *)
(* submit_application clicks no submission element for any form result,    *)
(* and the forms that main() fills with submit=False are not submitted.    *)
(***************************************************************************)
C25_DryRunSubmitsNothing ==
  /\ (bot_pc = "applied" /\ bot_dry_run) =>
       /\ ~bot_clicked
       /\ bot_status.submitted # "true"
  /\ (subm_pc # "off" /\ subm_dry_run) =>
       \A i \in 1..Len(subm_calls) : ~subm_calls[i].clicked
  /\ (forms_pc # "off" /\ ~submit) =>
       \A i \in 1..Len(results) : ~results[i].submitted

\* a dry run of submit_applications that found the submission element of a
\* valid form, reported it as submitted and did not click
C25_Witness ==
  /\ subm_pc = "returned"
  /\ subm_dry_run
  /\ \E i \in 1..Len(subm_calls) :
       /\ subm_calls[i] = Call(TRUE, TRUE, TRUE, FALSE)
       /\ subm_results[i].submitted

====
